---------------------------- MODULE Spec2Model ----------------------------
(***************************************************************************)
(* A model of the decision subsystem of the AI Governor bot:               *)
(*   - AntiRaidSystem (src/anti_raid.py): per-group join windows, raid     *)
(*     detection, activation / deactivation of raid protection, with the   *)
(*     two kinds of asyncio locks the class uses;                          *)
(*   - TrustEngine (src/trust_engine.py) and its caller _execute_action    *)
(*     (src/bot.py): calculation and persistence of trust scores.          *)
(*                                                                         *)
(* Time is in whole seconds.  Optional values are sequences of length      *)
(* 0 (None) or 1.  Every `await` of the source is a scheduling point of    *)
(* the task that executes it.                                              *)
(***************************************************************************)
EXTENDS Integers, Sequences, FiniteSets, TLC

(***************************************************************************)
(* Bounds of the model.                                                    *)
(***************************************************************************)
\* number of AntiRaidSystem operations started in one behaviour of Spec
MaxCalls == 5
\* number of AntiRaidSystem operations started in one behaviour of SpecConc
MaxConcCalls == 4
\* capacity of a join window: the slice [-500:] of record_join, scaled down
MaxWindow == 3
\* settings.RAID_JOIN_THRESHOLD as configured for the run (the default is 10;
\* the setting is read from the environment at process start)
RAID_JOIN_THRESHOLD == 3

(***************************************************************************)
(* Program constants.                                                      *)
(***************************************************************************)
\* timedelta(minutes=5) of record_join, in seconds
PRUNE_SECONDS == 300
\* timedelta(seconds=30) of detect_raid, in seconds
RECENT_SECONDS == 30
\* settings.RAID_NEW_ACCOUNT_DAYS
RAID_NEW_ACCOUNT_DAYS == 7
SECONDS_PER_DAY == 86400
\* len(events) < 3 of detect_raid
MIN_EVENTS == 3
\* len(new_accounts) >= 5 of detect_raid
NEW_ACCOUNT_MIN == 5
\* len(events) < 5 and len(usernames) < 5 of _analyze_username_patterns
PATTERN_MIN_NAMES == 5
\* [:10] of _get_similar_username_users
SIMILAR_USERS_MAX == 10
\* confidences are kept in twentieths: 20 stands for 1.0
CONF_ONE == 20
\* pattern_score > 0.7 of detect_raid, in twentieths
PATTERN_THRESHOLD == 14

Groups == {1, 2}
\* the tasks of the event loop: one task calls the operations one after the
\* other in Spec, two tasks call them concurrently in SpecConc
SeqTasks == {"t1"}
ConcTasks == {"t1", "t2"}

\* the clock values at which steps are taken: the start, 30 seconds later
\* (RECENT_SECONDS after the start), 5 minutes later (PRUNE_SECONDS after the
\* start) and 30 seconds after that
ClockValues == {0, 30, 300, 330}

\* the members whose joins are reported: user 1 has the username "bot1" and an
\* account created one day before time 0, user 2 has no username ("", the
\* empty sequence) and an unknown account creation time (None, as _on_user_join
\* passes it)
Members ==
    { [user_id |-> 1, username |-> <<"b", "o", "t", "1">>,
       account_created_at |-> << 0 - SECONDS_PER_DAY >>],
      [user_id |-> 2, username |-> << >>, account_created_at |-> << >>] }

Min(a, b) == IF a <= b THEN a ELSE b
Max(a, b) == IF a >= b THEN a ELSE b

(***************************************************************************)
(* Values of the data classes.                                             *)
(***************************************************************************)
\* dataclass JoinEvent
JoinEvent(user_id, username, account_created_at, joined_at) ==
    [user_id |-> user_id, username |-> username,
     account_created_at |-> account_created_at, joined_at |-> joined_at]

\* dataclass RaidDetectionResult; trigger_reason is kept as <<text, number>>
RaidDetectionResult(is_raid, raid_type, confidence, affected_users, recommended_action, trigger_reason) ==
    [is_raid |-> is_raid, raid_type |-> raid_type, confidence |-> confidence,
     affected_users |-> affected_users,
     recommended_action |-> recommended_action,
     trigger_reason |-> trigger_reason]

(***************************************************************************)
(* Sequence helpers (list comprehensions, slices, sorted, max).            *)
(***************************************************************************)
\* [f(e) for e in s]: the user ids of a list of events
UserIds(s) == [i \in 1..Len(s) |-> s[i].user_id]

\* LastN taking the first n elements, s[:n], instead of the last
LastN_First(s, n) == IF Len(s) <= n THEN s ELSE SubSeq(s, 1, n)

\* s[-n:]
LastN(s, n) == IF Len(s) <= n THEN s ELSE SubSeq(s, Len(s) - n + 1, Len(s))

\* s[:n]
FirstN(s, n) == IF Len(s) <= n THEN s ELSE SubSeq(s, 1, n)

RECURSIVE InsertAsc(_, _)
\* x placed after the elements of the ascending list s that are <= x
InsertAsc(s, x) ==
    IF s = << >> THEN << x >>
    ELSE IF x < Head(s) THEN << x >> \o s
    ELSE << Head(s) >> \o InsertAsc(Tail(s), x)

RECURSIVE SortedAsc(_)
\* sorted(numbers)
SortedAsc(s) ==
    IF s = << >> THEN << >>
    ELSE InsertAsc(SortedAsc(SubSeq(s, 1, Len(s) - 1)), s[Len(s)])

RECURSIVE InsertByJoinedDesc(_, _)
\* e placed after the events of s that joined at the same time or later
InsertByJoinedDesc(s, e) ==
    IF s = << >> THEN << e >>
    ELSE IF e.joined_at > Head(s).joined_at THEN << e >> \o s
    ELSE << Head(s) >> \o InsertByJoinedDesc(Tail(s), e)

RECURSIVE SortedByJoinedDesc(_)
\* sorted(events, key=lambda x: x.joined_at, reverse=True): stable, so events
\* that joined at the same time keep their order
SortedByJoinedDesc(s) ==
    IF s = << >> THEN << >>
    ELSE InsertByJoinedDesc(SortedByJoinedDesc(SubSeq(s, 1, Len(s) - 1)), s[Len(s)])

RECURSIVE Concat(_)
\* the concatenation of a list of lists
Concat(ss) == IF ss = << >> THEN << >> ELSE Head(ss) \o Concat(Tail(ss))

(***************************************************************************)
(* Characters of usernames and the regular expressions applied to them.    *)
(***************************************************************************)
LowerLetters == <<"a", "b", "c", "d", "e", "f", "g", "h", "i", "j", "k", "l", "m",
                  "n", "o", "p", "q", "r", "s", "t", "u", "v", "w", "x", "y", "z">>
UpperLetters == <<"A", "B", "C", "D", "E", "F", "G", "H", "I", "J", "K", "L", "M",
                  "N", "O", "P", "Q", "R", "S", "T", "U", "V", "W", "X", "Y", "Z">>
DigitChars == <<"0", "1", "2", "3", "4", "5", "6", "7", "8", "9">>

IsDigit(c) == \E i \in 1..Len(DigitChars) : DigitChars[i] = c
DigitValue(c) == (CHOOSE i \in 1..Len(DigitChars) : DigitChars[i] = c) - 1
IsUpper(c) == \E i \in 1..Len(UpperLetters) : UpperLetters[i] = c
IsLower(c) == \E i \in 1..Len(LowerLetters) : LowerLetters[i] = c
\* the character class [a-zA-Z0-9]
IsAlnum(c) == IsDigit(c) \/ IsUpper(c) \/ IsLower(c)
\* str.lower() on one character
LowerChar(c) ==
    IF IsUpper(c)
    THEN LowerLetters[CHOOSE i \in 1..Len(UpperLetters) : UpperLetters[i] = c]
    ELSE c
LowerStr(s) == [i \in 1..Len(s) |-> LowerChar(s[i])]

RECURSIVE ScanNumbers(_, _, _, _)
\* re.findall(r'\d+', username) followed by int(n): the values of the maximal
\* runs of digits, left to right.  i is the position scanned, inrun says that
\* a run is open and cur is its value so far.
ScanNumbers(username, i, inrun, cur) ==
    IF i > Len(username) THEN (IF inrun THEN << cur >> ELSE << >>)
    ELSE IF IsDigit(username[i])
         THEN ScanNumbers(username, i + 1, TRUE,
                          (IF inrun THEN cur * 10 ELSE 0) + DigitValue(username[i]))
         ELSE (IF inrun THEN << cur >> ELSE << >>)
              \o ScanNumbers(username, i + 1, FALSE, 0)

FindNumbers(username) == ScanNumbers(username, 1, FALSE, 0)

\* len(username) >= 8 and re.match(r'^[a-zA-Z0-9]+$', username)
IsRandomChars(username) ==
    /\ Len(username) >= 8
    /\ \A i \in 1..Len(username) : IsAlnum(username[i])

\* max(d.values()) if d else 0, for the dictionary counting the keys of names
MaxKeyCount(keys) ==
    LET count(k) == Cardinality({i \in 1..Len(keys) : keys[i] = k})
        counts == {count(keys[i]) : i \in 1..Len(keys)}
    IN  IF keys = << >> THEN 0 ELSE CHOOSE m \in counts : \A n \in counts : n <= m

\* _analyze_username_patterns, the score in twentieths (CONF_ONE is 1.0):
\* min(x / 5, 0.3) is Min(4 * x, 6), min(x / 10, 0.3) is Min(2 * x, 6),
\* min(x / 5, 0.2) is Min(4 * x, 4)
_analyze_username_patterns(events) ==
    LET usernames == SelectSeq([i \in 1..Len(events) |-> events[i].username],
                               LAMBDA u : u # << >>)
        numbers == Concat([i \in 1..Len(usernames) |-> FindNumbers(usernames[i])])
        random_chars == Cardinality({i \in 1..Len(usernames) : IsRandomChars(usernames[i])})
        long == SelectSeq(usernames, LAMBDA u : Len(u) >= 4)
        prefixes == [i \in 1..Len(long) |-> LowerStr(SubSeq(long[i], 1, 4))]
        suffixes == [i \in 1..Len(long) |->
                        LowerStr(SubSeq(long[i], Len(long[i]) - 3, Len(long[i])))]
        sorted_nums == SortedAsc(numbers)
        sequential_pairs ==
            Cardinality({i \in 1..(Len(sorted_nums) - 1) :
                            sorted_nums[i + 1] - sorted_nums[i] = 1})
        sequential == IF Len(numbers) >= 3 /\ sequential_pairs >= 2
                      THEN sequential_pairs ELSE 0
        max_prefix == MaxKeyCount(prefixes)
        max_suffix == MaxKeyCount(suffixes)
        same_prefix == IF max_prefix >= 3 THEN max_prefix ELSE 0
        same_suffix == IF max_suffix >= 3 THEN max_suffix ELSE 0
        score == Min(4 * sequential, 6) + Min(2 * random_chars, 6)
                 + Min(4 * same_prefix, 4) + Min(4 * same_suffix, 4)
    IN  IF Len(events) < PATTERN_MIN_NAMES THEN 0
        ELSE IF Len(usernames) < PATTERN_MIN_NAMES THEN 0
        ELSE Min(score, CONF_ONE)

\* _get_similar_username_users returning the users that joined first
_get_similar_username_users_Oldest(events) ==
    UserIds(LastN(SortedByJoinedDesc(events), SIMILAR_USERS_MAX))

\* _get_similar_username_users
_get_similar_username_users(events) ==
    UserIds(FirstN(SortedByJoinedDesc(events), SIMILAR_USERS_MAX))

(***************************************************************************)
(* AntiRaidSystem.detect_raid, lines 97-160: the classification of a copy  *)
(* of a join window at clock value t_now.                                  *)
(***************************************************************************)
\* RecentJoins with the join of exactly 30 seconds ago counted as recent
RecentJoins_Inclusive(events, t_now) ==
    SelectSeq(events, LAMBDA e : e.joined_at >= t_now - RECENT_SECONDS)

\* [e for e in events if e.joined_at > recent_cutoff]
RecentJoins(events, t_now) ==
    SelectSeq(events, LAMBDA e : e.joined_at > t_now - RECENT_SECONDS)

\* NewAccounts with an unknown account_created_at counted as a new account
NewAccounts_CountsUnknown(events, t_now) ==
    SelectSeq(events,
              LAMBDA e : \/ e.account_created_at = << >>
                         \/ e.account_created_at[1]
                              > t_now - RAID_NEW_ACCOUNT_DAYS * SECONDS_PER_DAY)

\* [e for e in events if e.account_created_at and
\*                       e.account_created_at > new_account_threshold]
NewAccounts(events, t_now) ==
    SelectSeq(events,
              LAMBDA e : /\ e.account_created_at # << >>
                         /\ e.account_created_at[1]
                              > t_now - RAID_NEW_ACCOUNT_DAYS * SECONDS_PER_DAY)

\* an account_created_at is None (<< >>), a naive datetime <<seconds>> as
\* datetime.utcnow() gives, or a timezone-aware datetime <<seconds, utcoffset>>
IsAware(account_created_at) == Len(account_created_at) = 2

\* detect_raid, line 126: e.account_created_at > new_account_threshold is
\* evaluated for an aware datetime against the naive threshold, which raises
\* TypeError
DetectRaidRaises(events, t_now) ==
    /\ Len(events) >= MIN_EVENTS
    /\ Len(RecentJoins(events, t_now)) < RAID_JOIN_THRESHOLD
    /\ \E i \in 1..Len(events) : IsAware(events[i].account_created_at)

\* DetectRaid with the new-account rule tested before the mass-join rule
DetectRaid_NewAccountFirst(events, t_now) ==
    LET recent_joins == RecentJoins(events, t_now)
        new_accounts == NewAccounts(events, t_now)
        pattern_score == _analyze_username_patterns(events)
    IN  IF Len(events) < MIN_EVENTS
        THEN RaidDetectionResult(FALSE, "none", 0, << >>, "none",
                                 <<"Insufficient data", 0>>)
        ELSE IF Len(new_accounts) >= NEW_ACCOUNT_MIN
        THEN RaidDetectionResult(TRUE, "new_account_wave",
                                 Min(2 * Len(new_accounts), CONF_ONE),
                                 UserIds(new_accounts),
                                 "restrict_new_accounts_verify",
                                 <<"new accounts joined", Len(new_accounts)>>)
        ELSE IF Len(recent_joins) >= RAID_JOIN_THRESHOLD
        THEN RaidDetectionResult(TRUE, "mass_join",
                                 Min(Len(recent_joins), CONF_ONE),
                                 UserIds(recent_joins),
                                 "enable_slow_mode_restrict_new",
                                 <<"joins in 30 seconds", Len(recent_joins)>>)
        ELSE IF pattern_score > PATTERN_THRESHOLD
        THEN RaidDetectionResult(TRUE, "username_pattern", pattern_score,
                                 _get_similar_username_users(events),
                                 "manual_review_ban_pattern",
                                 <<"Suspicious username patterns detected", 0>>)
        ELSE RaidDetectionResult(FALSE, "none", 0, << >>, "monitor",
                                 <<"No raid patterns detected", 0>>)

\* detect_raid, lines 97-160
DetectRaid(events, t_now) ==
    LET recent_joins == RecentJoins(events, t_now)
        new_accounts == NewAccounts(events, t_now)
        pattern_score == _analyze_username_patterns(events)
    IN  IF Len(events) < MIN_EVENTS
        THEN RaidDetectionResult(FALSE, "none", 0, << >>, "none",
                                 <<"Insufficient data", 0>>)
        ELSE IF Len(recent_joins) >= RAID_JOIN_THRESHOLD
        THEN RaidDetectionResult(TRUE, "mass_join",
                                 Min(Len(recent_joins), CONF_ONE),
                                 UserIds(recent_joins),
                                 "enable_slow_mode_restrict_new",
                                 <<"joins in 30 seconds", Len(recent_joins)>>)
        ELSE IF Len(new_accounts) >= NEW_ACCOUNT_MIN
        THEN RaidDetectionResult(TRUE, "new_account_wave",
                                 Min(2 * Len(new_accounts), CONF_ONE),
                                 UserIds(new_accounts),
                                 "restrict_new_accounts_verify",
                                 <<"new accounts joined", Len(new_accounts)>>)
        ELSE IF pattern_score > PATTERN_THRESHOLD
        THEN RaidDetectionResult(TRUE, "username_pattern", pattern_score,
                                 _get_similar_username_users(events),
                                 "manual_review_ban_pattern",
                                 <<"Suspicious username patterns detected", 0>>)
        ELSE RaidDetectionResult(FALSE, "none", 0, << >>, "monitor",
                                 <<"No raid patterns detected", 0>>)

\* record_join, lines 66-74: append, drop the events of more than five minutes
\* ago, keep the last MaxWindow
PruneAndCap(history, event, t_now) ==
    LET appended == Append(history, event)
        cutoff == t_now - PRUNE_SECONDS
        kept == SelectSeq(appended, LAMBDA e : e.joined_at > cutoff)
    IN  LastN(kept, MaxWindow)

\* the dictionary activate_raid_protection stores; ended_at is the key that
\* deactivate_raid_protection adds
RaidStatus(t_now, raid_result) ==
    [active |-> TRUE, started_at |-> t_now, raid_type |-> raid_result.raid_type,
     affected_users |-> raid_result.affected_users, measures |-> << >>,
     ended_at |-> << >>]

\* ShouldActivate without the test that the group has no raid status yet
ShouldActivate_NoStatusTest(raid_result, status) == raid_result.is_raid

\* record_join, line 80: the condition under which protection is activated
ShouldActivate(raid_result, status) == raid_result.is_raid /\ status = << >>

(***************************************************************************)
(* State of one AntiRaidSystem instance and of the tasks calling it.       *)
(***************************************************************************)
VARIABLES
    now,            \* datetime.utcnow(), in seconds
    calls_left,     \* number of operations that may still be started
    join_history,   \* self.join_history: group -> list of JoinEvent
    raid_status,    \* self.raid_status: group -> << >> (no key) or <<dict>>
    state_lock,     \* self._state_lock: << >> (free) or <<task holding it>>
    raid_locks,     \* self.raid_locks: group -> << >> or <<task holding it>>
    pc,             \* task -> the await or critical section the task is at
    op,             \* task -> the operation the task was called for
    group_id,       \* task -> the group_id argument
    event,          \* task -> the JoinEvent built by record_join
    raid_result,    \* task -> the result of detect_raid
    active_result   \* task -> the value is_raid_active returned

raidVars == <<now, calls_left, join_history, raid_status, state_lock, raid_locks,
              pc, op, group_id, event, raid_result, active_result>>

NoEvent == JoinEvent(0, << >>, << >>, 0)
NoResult == RaidDetectionResult(FALSE, "none", 0, << >>, "none", <<"", 0>>)

Tasks == DOMAIN pc

\* AntiRaidSystem.__init__, with the tasks that will call the instance
RaidInit(tasks, max_calls) ==
    /\ now = 0
    /\ calls_left = max_calls
    /\ join_history = [g \in Groups |-> << >>]
    /\ raid_status = [g \in Groups |-> << >>]
    /\ state_lock = << >>
    /\ raid_locks = [g \in Groups |-> << >>]
    /\ pc = [t \in tasks |-> "idle"]
    /\ op = [t \in tasks |-> "none"]
    /\ group_id = [t \in tasks |-> 1]
    /\ event = [t \in tasks |-> NoEvent]
    /\ raid_result = [t \in tasks |-> NoResult]
    /\ active_result = [t \in tasks |-> FALSE]

\* the clock advances to its next value.  The clock values are 30 seconds
\* and more apart and no operation does any I/O: the clock advances between
\* the operations, not while one is executing.
Tick ==
    /\ \A t \in Tasks : pc[t] \in {"idle", "done"}
    /\ \E v \in ClockValues : v > now /\ now' = v
    /\ UNCHANGED <<calls_left, join_history, raid_status, state_lock, raid_locks,
                   pc, op, group_id, event, raid_result, active_result>>

(***************************************************************************)
(* The operations of AntiRaidSystem.  A task is at "idle" between calls;   *)
(* x_lock is the await of a lock (the `async with` line), x_cs the body    *)
(* of the `async with` block, which runs to the release of the lock.       *)
(***************************************************************************)
Goto(t, label) == pc' = [pc EXCEPT ![t] = label]

\* the operation of task t has run to its return statement: the value it
\* returns (raid_result, active_result) is handed to the caller
Return(t) == Goto(t, "done") /\ UNCHANGED <<op, group_id, event>>

\* the caller has taken the returned value or the exception: the task is free
\* for another call
task_return(t) ==
    /\ pc[t] \in {"done", "raised"}
    /\ pc' = [pc EXCEPT ![t] = "idle"]
    /\ op' = [op EXCEPT ![t] = "none"]
    /\ group_id' = [group_id EXCEPT ![t] = 1]
    /\ event' = [event EXCEPT ![t] = NoEvent]
    /\ raid_result' = [raid_result EXCEPT ![t] = NoResult]
    /\ active_result' = [active_result EXCEPT ![t] = FALSE]
    /\ UNCHANGED <<now, calls_left, join_history, raid_status, state_lock, raid_locks>>

\* record_join, lines 50-64: the event is built with joined_at = utcnow(),
\* then the task awaits _state_lock
record_join_call(t) ==
    /\ pc[t] = "idle"
    /\ calls_left > 0
    /\ \E g \in Groups, m \in Members :
          /\ group_id' = [group_id EXCEPT ![t] = g]
          /\ event' = [event EXCEPT ![t] =
                           JoinEvent(m.user_id, m.username, m.account_created_at, now)]
    /\ op' = [op EXCEPT ![t] = "record_join"]
    /\ calls_left' = calls_left - 1
    /\ Goto(t, "rj_lock1")
    /\ UNCHANGED <<now, join_history, raid_status, state_lock, raid_locks,
                   raid_result, active_result>>

\* record_join, line 64: _state_lock acquired
record_join_lock1(t) ==
    /\ pc[t] = "rj_lock1"
    /\ state_lock = << >>
    /\ state_lock' = << t >>
    /\ Goto(t, "rj_cs1")
    /\ UNCHANGED <<now, calls_left, join_history, raid_status, raid_locks,
                   op, group_id, event, raid_result, active_result>>

\* record_join_append with one list shared by the windows of all groups
record_join_append_Shared(t) ==
    /\ pc[t] = "rj_cs1"
    /\ join_history' = [g \in Groups |->
                            PruneAndCap(join_history[group_id[t]], event[t], now)]
    /\ state_lock' = << >>
    /\ Goto(t, "dr_lock")
    /\ UNCHANGED <<now, calls_left, raid_status, raid_locks,
                   op, group_id, event, raid_result, active_result>>

\* record_join, lines 65-77: the window is updated, the lock released and
\* detect_raid called
record_join_append(t) ==
    /\ pc[t] = "rj_cs1"
    /\ join_history' = [join_history EXCEPT ![group_id[t]] =
                            PruneAndCap(join_history[group_id[t]], event[t], now)]
    /\ state_lock' = << >>
    /\ Goto(t, "dr_lock")
    /\ UNCHANGED <<now, calls_left, raid_status, raid_locks,
                   op, group_id, event, raid_result, active_result>>

\* detect_raid called by a task of its own, lines 85-94
detect_raid_call(t) ==
    /\ pc[t] = "idle"
    /\ calls_left > 0
    /\ \E g \in Groups : group_id' = [group_id EXCEPT ![t] = g]
    /\ op' = [op EXCEPT ![t] = "detect_raid"]
    /\ calls_left' = calls_left - 1
    /\ Goto(t, "dr_lock")
    /\ UNCHANGED <<now, join_history, raid_status, state_lock, raid_locks,
                   event, raid_result, active_result>>

\* detect_raid, line 94: _state_lock acquired
detect_raid_lock(t) ==
    /\ pc[t] = "dr_lock"
    /\ state_lock = << >>
    /\ state_lock' = << t >>
    /\ Goto(t, "dr_cs")
    /\ UNCHANGED <<now, calls_left, join_history, raid_status, raid_locks,
                   op, group_id, event, raid_result, active_result>>

\* detect_raid_body storing a raid status itself when it detects a raid
detect_raid_body_Activates(t) ==
    /\ pc[t] = "dr_cs"
    /\ state_lock' = << >>
    /\ IF DetectRaidRaises(join_history[group_id[t]], now)
       THEN /\ Goto(t, "raised")
            /\ UNCHANGED <<op, group_id, event, raid_result, raid_status>>
       ELSE /\ raid_result' = [raid_result EXCEPT ![t] =
                                  DetectRaid(join_history[group_id[t]], now)]
            /\ raid_status' =
                  IF DetectRaid(join_history[group_id[t]], now).is_raid
                  THEN [raid_status EXCEPT ![group_id[t]] =
                           << RaidStatus(now, DetectRaid(join_history[group_id[t]], now)) >>]
                  ELSE raid_status
            /\ IF op[t] = "record_join"
               THEN Goto(t, "rj_lock2") /\ UNCHANGED <<op, group_id, event>>
               ELSE Return(t)
    /\ UNCHANGED <<now, calls_left, join_history, raid_locks, active_result>>

\* detect_raid, lines 95-160: the window is copied, the lock released, the
\* copy classified; the result goes to record_join or to the caller.  An
\* exception of the classification leaves detect_raid, and record_join, which
\* does not catch it.
detect_raid_body(t) ==
    /\ pc[t] = "dr_cs"
    /\ state_lock' = << >>
    /\ IF DetectRaidRaises(join_history[group_id[t]], now)
       THEN /\ Goto(t, "raised")
            /\ UNCHANGED <<op, group_id, event, raid_result>>
       ELSE /\ raid_result' = [raid_result EXCEPT ![t] =
                                  DetectRaid(join_history[group_id[t]], now)]
            /\ IF op[t] = "record_join"
               THEN Goto(t, "rj_lock2") /\ UNCHANGED <<op, group_id, event>>
               ELSE Return(t)
    /\ UNCHANGED <<now, calls_left, join_history, raid_status, raid_locks,
                   active_result>>

\* record_join, line 79: _state_lock acquired again
record_join_lock2(t) ==
    /\ pc[t] = "rj_lock2"
    /\ state_lock = << >>
    /\ state_lock' = << t >>
    /\ Goto(t, "rj_cs2")
    /\ UNCHANGED <<now, calls_left, join_history, raid_status, raid_locks,
                   op, group_id, event, raid_result, active_result>>

\* record_join_check releasing _state_lock before protection is activated
record_join_check_ReleasesFirst(t) ==
    /\ pc[t] = "rj_cs2"
    /\ IF ShouldActivate(raid_result[t], raid_status[group_id[t]])
       THEN /\ Goto(t, "act_lock")
            /\ state_lock' = << >>
            /\ UNCHANGED <<op, group_id, event>>
       ELSE /\ Return(t)
            /\ state_lock' = << >>
    /\ UNCHANGED <<now, calls_left, join_history, raid_status, raid_locks,
                   raid_result, active_result>>

\* record_join, lines 80-83: protection is activated (with _state_lock still
\* held) or the lock is released and the result returned
record_join_check(t) ==
    /\ pc[t] = "rj_cs2"
    /\ IF ShouldActivate(raid_result[t], raid_status[group_id[t]])
       THEN /\ Goto(t, "act_lock")
            /\ UNCHANGED <<state_lock, op, group_id, event>>
       ELSE /\ Return(t)
            /\ state_lock' = << >>
    /\ UNCHANGED <<now, calls_left, join_history, raid_status, raid_locks,
                   raid_result, active_result>>

\* activate_raid_protection, line 246: raid_locks[group_id] acquired
activate_raid_protection_lock(t) ==
    /\ pc[t] = "act_lock"
    /\ raid_locks[group_id[t]] = << >>
    /\ raid_locks' = [raid_locks EXCEPT ![group_id[t]] = << t >>]
    /\ Goto(t, "act_cs")
    /\ UNCHANGED <<now, calls_left, join_history, raid_status, state_lock,
                   op, group_id, event, raid_result, active_result>>

\* activate_raid_protection, lines 247-253, then the end of both `async with`
\* blocks and the return of record_join
activate_raid_protection_body(t) ==
    /\ pc[t] = "act_cs"
    /\ raid_status' = [raid_status EXCEPT ![group_id[t]] =
                           << RaidStatus(now, raid_result[t]) >>]
    /\ raid_locks' = [raid_locks EXCEPT ![group_id[t]] = << >>]
    /\ state_lock' = << >>
    /\ Return(t)
    /\ UNCHANGED <<now, calls_left, join_history, raid_result, active_result>>

\* deactivate_raid_protection, lines 255-257
deactivate_raid_protection_call(t) ==
    /\ pc[t] = "idle"
    /\ calls_left > 0
    /\ \E g \in Groups : group_id' = [group_id EXCEPT ![t] = g]
    /\ op' = [op EXCEPT ![t] = "deactivate_raid_protection"]
    /\ calls_left' = calls_left - 1
    /\ Goto(t, "de_lock")
    /\ UNCHANGED <<now, join_history, raid_status, state_lock, raid_locks,
                   event, raid_result, active_result>>

\* deactivate_raid_protection, line 257: raid_locks[group_id] acquired
deactivate_raid_protection_lock(t) ==
    /\ pc[t] = "de_lock"
    /\ raid_locks[group_id[t]] = << >>
    /\ raid_locks' = [raid_locks EXCEPT ![group_id[t]] = << t >>]
    /\ Goto(t, "de_cs")
    /\ UNCHANGED <<now, calls_left, join_history, raid_status, state_lock,
                   op, group_id, event, raid_result, active_result>>

\* deactivate_raid_protection_body with _state_lock acquired inside
\* raid_locks[group_id], the reverse of the order of record_join
deactivate_raid_protection_body_StateLockInside(t) ==
    /\ pc[t] = "de_cs"
    /\ state_lock = << >>
    /\ raid_status' =
          IF raid_status[group_id[t]] # << >>
          THEN [raid_status EXCEPT ![group_id[t]] =
                   << [raid_status[group_id[t]][1] EXCEPT
                          !.active = FALSE, !.ended_at = << now >>] >>]
          ELSE raid_status
    /\ raid_locks' = [raid_locks EXCEPT ![group_id[t]] = << >>]
    /\ Return(t)
    /\ UNCHANGED <<now, calls_left, join_history, state_lock,
                   raid_result, active_result>>

\* deactivate_raid_protection_body without the ended_at it records
deactivate_raid_protection_body_NoEndedAt(t) ==
    /\ pc[t] = "de_cs"
    /\ raid_status' =
          IF raid_status[group_id[t]] # << >>
          THEN [raid_status EXCEPT ![group_id[t]] =
                   << [raid_status[group_id[t]][1] EXCEPT !.active = FALSE] >>]
          ELSE raid_status
    /\ raid_locks' = [raid_locks EXCEPT ![group_id[t]] = << >>]
    /\ Return(t)
    /\ UNCHANGED <<now, calls_left, join_history, state_lock,
                   raid_result, active_result>>

\* deactivate_raid_protection, lines 258-260
deactivate_raid_protection_body(t) ==
    /\ pc[t] = "de_cs"
    /\ raid_status' =
          IF raid_status[group_id[t]] # << >>
          THEN [raid_status EXCEPT ![group_id[t]] =
                   << [raid_status[group_id[t]][1] EXCEPT
                          !.active = FALSE, !.ended_at = << now >>] >>]
          ELSE raid_status
    /\ raid_locks' = [raid_locks EXCEPT ![group_id[t]] = << >>]
    /\ Return(t)
    /\ UNCHANGED <<now, calls_left, join_history, state_lock,
                   raid_result, active_result>>

\* is_raid_active, lines 262-264
is_raid_active_call(t) ==
    /\ pc[t] = "idle"
    /\ calls_left > 0
    /\ \E g \in Groups : group_id' = [group_id EXCEPT ![t] = g]
    /\ op' = [op EXCEPT ![t] = "is_raid_active"]
    /\ calls_left' = calls_left - 1
    /\ Goto(t, "ia_lock")
    /\ UNCHANGED <<now, join_history, raid_status, state_lock, raid_locks,
                   event, raid_result, active_result>>

\* is_raid_active, line 264: _state_lock acquired
is_raid_active_lock(t) ==
    /\ pc[t] = "ia_lock"
    /\ state_lock = << >>
    /\ state_lock' = << t >>
    /\ Goto(t, "ia_cs")
    /\ UNCHANGED <<now, calls_left, join_history, raid_status, raid_locks,
                   op, group_id, event, raid_result, active_result>>

\* is_raid_active, lines 265-266
is_raid_active_body(t) ==
    /\ pc[t] = "ia_cs"
    /\ active_result' = [active_result EXCEPT ![t] =
                            IF raid_status[group_id[t]] # << >>
                            THEN raid_status[group_id[t]][1].active
                            ELSE FALSE]
    /\ state_lock' = << >>
    /\ Return(t)
    /\ UNCHANGED <<now, calls_left, join_history, raid_status, raid_locks,
                   raid_result>>

\* a step of task t inside an operation it has started
TaskStep(t) ==
    \/ record_join_lock1(t)
    \/ record_join_append(t)
    \/ detect_raid_lock(t)
    \/ detect_raid_body(t)
    \/ record_join_lock2(t)
    \/ record_join_check(t)
    \/ activate_raid_protection_lock(t)
    \/ activate_raid_protection_body(t)
    \/ deactivate_raid_protection_lock(t)
    \/ deactivate_raid_protection_body(t)
    \/ is_raid_active_lock(t)
    \/ is_raid_active_body(t)
    \/ task_return(t)

(***************************************************************************)
(* Claims about AntiRaidSystem.                                            *)
(***************************************************************************)
\* the task is in a call of record_join for group g
InRecordJoin(t, g) == op[t] = "record_join" /\ group_id[t] = g

\* C1: raid activation is idempotent.  A step of a record_join call whose
\* group already has a raid status leaves raid_status as it is, whatever
\* detect_raid returned to that call: only the first detection writes an
\* activation record.
C1_ActivationIdempotent ==
    [][\A t \in Tasks :
          (/\ op[t] = "record_join"
           /\ pc'[t] # pc[t]
           /\ raid_status[group_id[t]] # << >>)
          => raid_status' = raid_status]_raidVars

\* C1, the case: a record_join call has returned is_raid = TRUE for a group
\* whose activation record was written by an earlier call (the affected users
\* recorded are not the ones this call detected)
C1_Witness ==
    \E t \in Tasks :
        /\ pc[t] = "done"
        /\ op[t] = "record_join"
        /\ raid_result[t].is_raid
        /\ raid_status[group_id[t]] # << >>
        /\ raid_status[group_id[t]][1].active
        /\ raid_status[group_id[t]][1].affected_users # raid_result[t].affected_users

\* is_raid_active(g), as a function of the state
IsRaidActive(g) == raid_status[g] # << >> /\ raid_status[g][1].active

\* C2: the state machine of a group cycles.  When the operations are called
\* one after the other, a record_join call to which detect_raid returned
\* is_raid = TRUE ends with protection active for its group: it was active
\* already, or this call activated it, also after an earlier deactivation.
C2_ReactivatesAfterDeactivation ==
    \A t \in Tasks :
        (pc[t] = "done" /\ op[t] = "record_join" /\ raid_result[t].is_raid)
        => IsRaidActive(group_id[t])

\* the events of a window that joined no more than five minutes before t_now
NotStale(events, t_now) ==
    SelectSeq(events, LAMBDA e : e.joined_at >= t_now - PRUNE_SECONDS)

\* C3: whenever detect_raid classifies the window of a group, the events that
\* joined more than five minutes before the clock value of the evaluation have
\* no part in the result: the result is the one the events of the last five
\* minutes alone give.
C3_StaleEventsNotCounted ==
    [][\A t \in Tasks :
          detect_raid_body(t)
          => raid_result'[t] =
                DetectRaid(NotStale(join_history[group_id[t]], now), now)]_raidVars

\* C4: the step of record_join that updates the window leaves at most
\* MaxWindow events, each of which joined less than five minutes ago, and these
\* are the last ones, in arrival order, of the events of the last five minutes
\* (the old window followed by the new event).
C4_WindowAfterRecordJoin ==
    [][\A t \in Tasks :
          record_join_append(t)
          => LET arrived == Append(join_history[group_id[t]], event[t])
                 fresh == SelectSeq(arrived,
                                    LAMBDA e : e.joined_at > now - PRUNE_SECONDS)
                 window == join_history'[group_id[t]]
             IN  /\ Len(window) <= MaxWindow
                 /\ \A i \in 1..Len(window) :
                        window[i].joined_at > now - PRUNE_SECONDS
                 /\ Len(window) = Min(Len(fresh), MaxWindow)
                 /\ window = SubSeq(fresh, Len(fresh) - Len(window) + 1, Len(fresh))
      ]_raidVars

\* C4, the case: a group whose window was full of joins of user 1 when its raid
\* was detected (they are the affected users recorded) has, at the same clock
\* value, a full window that ends with a join of user 2: the join of user 2 was
\* appended to the full window and the oldest join dropped
C4_Witness ==
    \E g \in Groups :
        /\ raid_status[g] # << >>
        /\ raid_status[g][1].started_at = now
        /\ Len(raid_status[g][1].affected_users) = MaxWindow
        /\ \A i \in 1..MaxWindow : raid_status[g][1].affected_users[i] = 1
        /\ Len(join_history[g]) = MaxWindow
        /\ \A i \in 1..(MaxWindow - 1) : join_history[g][i].user_id = 1
        /\ join_history[g][MaxWindow].user_id = 2
        /\ \A i \in 1..MaxWindow : join_history[g][i].joined_at = now

\* task t is inside a critical section that reads or writes raid_status[g]:
\* the activation check of record_join (lines 80-81, which lasts until
\* activate_raid_protection has returned), activate_raid_protection (247-253),
\* deactivate_raid_protection (258-260), is_raid_active (265-266)
InStatusSection(t, g) ==
    /\ group_id[t] = g
    /\ pc[t] \in {"rj_cs2", "act_lock", "act_cs", "de_cs", "ia_cs"}

\* task t is inside a critical section that reads or writes join_history[g]:
\* record_join (lines 65-74), detect_raid (line 95)
InWindowSection(t, g) ==
    /\ group_id[t] = g
    /\ pc[t] \in {"rj_cs1", "dr_cs"}

\* every task inside a critical section on the raid status or the join window
\* of g holds _state_lock
SectionsHoldStateLock(g) ==
    \A t \in Tasks :
        (InStatusSection(t, g) \/ InWindowSection(t, g)) => state_lock = << t >>

\* every task inside a critical section on the raid status or the join window
\* of g holds raid_locks[g]
SectionsHoldRaidLock(g) ==
    \A t \in Tasks :
        (InStatusSection(t, g) \/ InWindowSection(t, g)) => raid_locks[g] = << t >>

\* C9: one mutual-exclusion lock covers a group.  For every group, all the
\* critical sections that read or write its raid status or its join window
\* are entered with the same lock held: _state_lock in all of them, or
\* raid_locks[g] in all of them.
C9_OneLockCoversGroup ==
    \A g \in Groups : [] SectionsHoldStateLock(g) \/ [] SectionsHoldRaidLock(g)

\* C10: under fair scheduling every operation that was called returns.
C10_EveryCallReturns ==
    \A t \in ConcTasks : (pc[t] \notin {"idle", "done"}) ~> (pc[t] = "done")

\* C10, the case: a task waits for raid_locks[g] with _state_lock held, while
\* the other task holds raid_locks[g]
C10_Witness ==
    \E t1, t2 \in Tasks :
        /\ t1 # t2
        /\ pc[t1] = "act_lock"
        /\ state_lock = << t1 >>
        /\ raid_locks[group_id[t1]] = << t2 >>

\* C28: when concurrent record_join calls of a group each obtain is_raid =
\* TRUE before any of them has activated protection, the activation takes
\* effect once: a status is written only for a group that has none, and the
\* started_at, raid_type and affected_users of a status are never changed.
C28_ActivatedOnce ==
    [][\A g \in Groups :
          /\ \A t \in Tasks :
                (pc[t] = "act_cs" /\ pc'[t] = "done" /\ group_id[t] = g)
                => raid_status[g] = << >>
          /\ raid_status[g] # << >>
                => /\ raid_status'[g] # << >>
                   /\ raid_status'[g][1].started_at = raid_status[g][1].started_at
                   /\ raid_status'[g][1].raid_type = raid_status[g][1].raid_type
                   /\ raid_status'[g][1].affected_users = raid_status[g][1].affected_users
      ]_raidVars

\* C28, the case: a task is about to write the status of a group that has
\* none, while the record_join of another task, to which detect_raid returned
\* is_raid = TRUE for the same group with other affected users, waits for
\* _state_lock
C28_Witness ==
    \E t1, t2 \in Tasks :
        /\ t1 # t2
        /\ group_id[t1] = group_id[t2]
        /\ pc[t1] = "act_cs"
        /\ op[t2] = "record_join"
        /\ pc[t2] = "rj_lock2"
        /\ raid_result[t1].is_raid
        /\ raid_result[t2].is_raid
        /\ raid_result[t1].affected_users # raid_result[t2].affected_users
        /\ raid_status[group_id[t1]] = << >>

\* C29: detect_raid and is_raid_active are read-only with respect to the raid
\* state.  No step of a direct call of detect_raid, whatever it returns, and
\* no step of is_raid_active changes the raid status or the join window of
\* any group, and no step of detect_raid inside record_join does; a group
\* gets a raid status only in the activation of a record_join call.
C29_DetectionReadOnly ==
    [][/\ \A t \in Tasks :
             (/\ pc'[t] # pc[t]
              /\ \/ op'[t] \in {"detect_raid", "is_raid_active"}
                 \/ pc[t] \in {"dr_lock", "dr_cs"})
             => /\ raid_status' = raid_status
                /\ join_history' = join_history
       /\ \A g \in Groups :
             (raid_status[g] = << >> /\ raid_status'[g] # << >>)
             => \E t \in Tasks : /\ op[t] = "record_join" /\ group_id[t] = g
                                 /\ pc[t] = "act_cs" /\ pc'[t] = "done"
      ]_raidVars

\* C29, the case: a direct call of detect_raid has returned is_raid = TRUE
\* for a group that has no raid status
C29_Witness ==
    \E t \in Tasks :
        /\ op[t] = "detect_raid"
        /\ pc[t] = "done"
        /\ raid_result[t].is_raid
        /\ raid_status[group_id[t]] = << >>

\* the user ids of the events of a window
WindowUsers(events) == {events[i].user_id : i \in DOMAIN events}

\* C30: groups are isolated.  A step of an operation called for a group g
\* leaves the join window and the raid status of every other group as they
\* are; the result of detect_raid(g) is determined by the window of g (it
\* names users of that window only, and is no raid when that window has fewer
\* than 3 events, whatever the other windows hold); deactivating a group that
\* has no raid status creates none.
C30_GroupsIsolated ==
    [][\A t \in Tasks :
          pc[t] # "idle" /\ pc'[t] # pc[t]
          => /\ \A h \in Groups \ {group_id[t]} :
                   /\ join_history'[h] = join_history[h]
                   /\ raid_status'[h] = raid_status[h]
             /\ (pc[t] = "dr_cs" /\ pc'[t] # "raised")
                   => /\ raid_result'[t] = DetectRaid(join_history[group_id[t]], now)
                      /\ \A i \in DOMAIN raid_result'[t].affected_users :
                            raid_result'[t].affected_users[i]
                               \in WindowUsers(join_history[group_id[t]])
                      /\ Len(join_history[group_id[t]]) < 3 => ~raid_result'[t].is_raid
             /\ (pc[t] = "de_cs" /\ raid_status[group_id[t]] = << >>)
                   => /\ raid_status'[group_id[t]] = << >>
                      /\ ~IsRaidActive(group_id[t])'
      ]_raidVars

\* C30, the case: deactivate_raid_protection has returned for a group that
\* has no raid status and an empty window, while the raid of the other group
\* is active
C30_Witness ==
    \E t \in Tasks :
        /\ op[t] = "deactivate_raid_protection"
        /\ pc[t] = "done"
        /\ raid_status[group_id[t]] = << >>
        /\ join_history[group_id[t]] = << >>
        /\ \E h \in Groups \ {group_id[t]} : IsRaidActive(h) /\ join_history[h] # << >>

\* C21: an active raid stays active until deactivate_raid_protection is
\* called for its group.  The only step that turns active to false for a
\* group is the body of a deactivate_raid_protection call for that group,
\* whatever joins, detections, queries and clock advances happen; and every
\* such body on a group with a status leaves active = false and ended_at set
\* to the time of the call.
C21_ActiveUntilDeactivated ==
    [][\A g \in Groups :
          /\ (IsRaidActive(g) /\ ~IsRaidActive(g)')
                => \E t \in Tasks :
                      /\ op[t] = "deactivate_raid_protection"
                      /\ group_id[t] = g
                      /\ pc[t] = "de_cs"
                      /\ pc'[t] = "done"
          /\ \A t \in Tasks :
                (/\ op[t] = "deactivate_raid_protection"
                 /\ group_id[t] = g
                 /\ pc[t] = "de_cs"
                 /\ pc'[t] = "done"
                 /\ raid_status[g] # << >>)
                => /\ ~IsRaidActive(g)'
                   /\ raid_status'[g][1].ended_at = << now >>
                   /\ raid_status'[g][1].started_at = raid_status[g][1].started_at
      ]_raidVars

\* a raid that started at time 0 is still active five minutes later, after a
\* record_join of its group to which detect_raid returned 'not a raid'
C21_Witness ==
    \E t \in Tasks :
        /\ pc[t] = "done"
        /\ op[t] = "record_join"
        /\ ~raid_result[t].is_raid
        /\ now >= PRUNE_SECONDS
        /\ IsRaidActive(group_id[t])
        /\ raid_status[group_id[t]][1].started_at = 0

(***************************************************************************)
(* detect_raid on join windows of every composition.  A window is built    *)
(* of three runs of joins, in arrival order: joins of more than 30 seconds *)
(* ago, joins of exactly 30 seconds ago and joins of the last 30 seconds.  *)
(***************************************************************************)
\* the clock value at which the windows are classified
DetectNow == 300
\* seconds before DetectNow at which the joins of the first run happened
EarlierAge == 60
\* seconds before DetectNow at which the joins of the last run happened
RecentAge == 10

\* account_created_at of a joining user: None, one day before the
\* classification, exactly RAID_NEW_ACCOUNT_DAYS before it, one day more; and
\* one day before the classification as a timezone-aware datetime (UTC)
AccountChoices ==
    { << >>,
      << DetectNow - SECONDS_PER_DAY >>,
      << DetectNow - RAID_NEW_ACCOUNT_DAYS * SECONDS_PER_DAY >>,
      << DetectNow - (RAID_NEW_ACCOUNT_DAYS + 1) * SECONDS_PER_DAY >>,
      << DetectNow - SECONDS_PER_DAY, 0 >> }

\* the username of the i-th joining user: "" (no username), "bob", the name
\* "RaidBots" in upper or lower case letters, or the numbered name "user0001",
\* "user0002", ... of a scripted raid
NameKinds == {"none", "short", "same", "numbered"}
UserName(kind, i) ==
    CASE kind = "none" -> << >>
      [] kind = "short" -> <<"b", "o", "b">>
      [] kind = "same" -> IF i % 2 = 0 THEN <<"R", "a", "i", "d", "B", "o", "t", "s">>
                          ELSE <<"r", "a", "i", "d", "b", "o", "t", "s">>
      [] OTHER -> <<"u", "s", "e", "r">>
                  \o << DigitChars[((i \div 1000) % 10) + 1],
                        DigitChars[((i \div 100) % 10) + 1],
                        DigitChars[((i \div 10) % 10) + 1],
                        DigitChars[(i % 10) + 1] >>

\* the kinds of joining users of a run: account_created_at and username kind
JoinProfiles ==
    { <<a, k>> : a \in AccountChoices, k \in {"none", "numbered"} }
       \cup { << << >>, "short" >>, << << >>, "same" >> }

\* n joins of one profile at one time, by the users first + 1 .. first + n
JoinRun(first, n, profile, joined_at) ==
    [i \in 1..n |-> JoinEvent(first + i, UserName(profile[2], first + i),
                              profile[1], joined_at)]

\* numbers of joins of the first run: around the 5 of the new-account rule,
\* and more than 10
EarlierCounts == 0..(NEW_ACCOUNT_MIN + 1) \cup {2 * NEW_ACCOUNT_MIN + 1}
\* numbers of joins of the last run: around the threshold, the 12 joins of a
\* burst, and more than 20
RecentCounts == 0..(RAID_JOIN_THRESHOLD + 1) \cup {12, CONF_ONE + 1}

\* the join windows classified
DetectWindows ==
    { JoinRun(0, ne, pe, DetectNow - EarlierAge)
        \o JoinRun(ne, nb, pr, DetectNow - RECENT_SECONDS)
        \o JoinRun(ne + nb, nr, pr, DetectNow - RecentAge) :
      ne \in EarlierCounts, pe \in JoinProfiles, nb \in {0, 1},
      nr \in RecentCounts, pr \in JoinProfiles }

\* AntiRaidSystem with the window of group 1 given, and one detect_raid call
\* to be made
DetectInit(tasks) ==
    /\ now = DetectNow
    /\ calls_left = 1
    /\ join_history \in { [g \in Groups |-> IF g = 1 THEN w ELSE << >>] :
                            w \in DetectWindows }
    /\ raid_status = [g \in Groups |-> << >>]
    /\ state_lock = << >>
    /\ raid_locks = [g \in Groups |-> << >>]
    /\ pc = [t \in tasks |-> "idle"]
    /\ op = [t \in tasks |-> "none"]
    /\ group_id = [t \in tasks |-> 1]
    /\ event = [t \in tasks |-> NoEvent]
    /\ raid_result = [t \in tasks |-> NoResult]
    /\ active_result = [t \in tasks |-> FALSE]

\* the task has the result of a direct call of detect_raid
HasRaidResult(t) == op[t] = "detect_raid" /\ pc[t] = "done"

\* the positions of the window of g whose join is within the trailing 30
\* seconds of the clock
RecentPositions(g) ==
    {i \in 1..Len(join_history[g]) :
        now - join_history[g][i].joined_at < RECENT_SECONDS}

\* the users at the positions P of the window of g, in arrival order
UsersAt(g, P) ==
    UserIds(SelectSeq([i \in 1..Len(join_history[g]) |->
                          [user_id |-> join_history[g][i].user_id, at |-> i]],
                      LAMBDA x : x.at \in P))

SCORE_SCALE == 1000
TRUST_MAX == 100
TRUST_MIN == 0
\* settings.TRUST_BONUS_POSITIVE = 0.8, in thousandths
TRUST_BONUS_POSITIVE == 800
TRUST_PENALTY_VIOLATION == 5
TRUST_PENALTY_MUTE == 8
TRUST_PENALTY_BAN == 15
TRUST_AUTO_RESTRICT_MEDIA == 25
TRUST_AUTO_BAN == 10
\* GroupUser.trust_score = Column(Float, default=50.0)
TRUST_SCORE_DEFAULT == 50

\* the values of settings.TRUST_INITIAL the process may be started with (the
\* default is 50; the setting is read from the environment)
TRUST_INITIAL_DEFAULT == 50
TrustInitialChoices == {TRUST_MIN, TRUST_INITIAL_DEFAULT, TRUST_MAX}

\* values of settings.TRUST_INITIAL, in thousandths, from which the actions
\* lead to scores at, next to and between the restriction thresholds: 35.0
\* (to 25.0, 20.0 and 10.0), 24.2 (to 25.0), 10.0, and 24.996 and 9.996,
\* which have a third decimal
ThresholdInitialScores == {TRUST_INITIAL_DEFAULT * SCORE_SCALE, 35000, 24200, 10000, 24996, 9996}

TrustUsers == {1, 2}
TrustGroups == {1}
TrustPairs == TrustUsers \X TrustGroups
TrustTasks == {"m1", "m2"}

ActionTypes == {"positive_interaction", "violation", "mute", "ban_attempt", "other"}
Severities == {"low", "medium", "high", "critical", "other"}
\* the default of the severity parameter of calculate_trust_update
SEVERITY_DEFAULT == "low"
\* the (action_type, severity) arguments of a call: a violation of every
\* severity, every other action type with the default severity, and a mute
\* with a severity given
ActionArguments ==
    ({"violation"} \X Severities)
    \cup ((ActionTypes \ {"violation"}) \X {SEVERITY_DEFAULT})
    \cup {<<"mute", "critical">>}
\* the risk levels of an assessment whose decision is not "allow"
ViolationLevels == {"medium", "high", "critical"}
\* the risk levels of an assessment
AssessedLevels == {"low"} \cup ViolationLevels

\* the decision _determine_action gives with a risk level
DecisionOfLevel(risk_level) ==
    CASE risk_level \in {"critical", "high"} -> "block"
      [] risk_level = "medium" -> "warn"
      [] OTHER -> "allow"
\* new_score arguments a caller of update_user_trust passes, in thousandths
ScoreArguments == {95000, 150000}

\* round(x, 2) on thousandths: to the nearest hundredth, halves to the even one
Round2(x) ==
    LET q == x \div 10
        r == x % 10
    IN  IF r < 5 THEN 10 * q
        ELSE IF r > 5 THEN 10 * (q + 1)
        ELSE IF q % 2 = 0 THEN 10 * q ELSE 10 * (q + 1)

\* SeverityMultiplier with the same multiplier for every severity
SeverityMultiplier_Flat(severity) == 1

\* {"low": 1, "medium": 2, "high": 3, "critical": 5}.get(severity, 1)
SeverityMultiplier(severity) ==
    CASE severity = "low" -> 1
      [] severity = "medium" -> 2
      [] severity = "high" -> 3
      [] severity = "critical" -> 5
      [] OTHER -> 1

\* calculate_trust_update, lines 51-70: the change of an action, in thousandths
TrustChange(action_type, severity) ==
    CASE action_type = "positive_interaction" -> TRUST_BONUS_POSITIVE
      [] action_type = "violation" ->
            0 - TRUST_PENALTY_VIOLATION * SeverityMultiplier(severity) * SCORE_SCALE
      [] action_type = "mute" -> 0 - TRUST_PENALTY_MUTE * SCORE_SCALE
      [] action_type = "ban_attempt" -> 0 - TRUST_PENALTY_BAN * SCORE_SCALE
      [] OTHER -> 0

\* ClampTrust without the bounds
ClampTrust_Unbounded(score) == score

\* calculate_trust_update, lines 73-76: max(TRUST_MIN, min(TRUST_MAX, score))
ClampTrust(score) ==
    Max(TRUST_MIN * SCORE_SCALE, Min(TRUST_MAX * SCORE_SCALE, score))

\* _determine_restrictions with the thresholds included
_determine_restrictions_Inclusive(trust_score) ==
    (IF trust_score <= TRUST_AUTO_RESTRICT_MEDIA * SCORE_SCALE
     THEN <<"media_restricted">> ELSE << >>)
    \o (IF trust_score <= TRUST_AUTO_BAN * SCORE_SCALE
        THEN <<"auto_ban_candidate">> ELSE << >>)

\* _determine_restrictions
_determine_restrictions(trust_score) ==
    (IF trust_score < TRUST_AUTO_RESTRICT_MEDIA * SCORE_SCALE
     THEN <<"media_restricted">> ELSE << >>)
    \o (IF trust_score < TRUST_AUTO_BAN * SCORE_SCALE
        THEN <<"auto_ban_candidate">> ELSE << >>)

\* the decay of an inactive user: 2 points a week, from the second week on
DECAY_FREE_DAYS == 7
DAYS_PER_WEEK == 7
DECAY_PER_WEEK == 2

\* calculate_trust_decay without the floor at TRUST_MIN
calculate_trust_decay_NoFloor(current_score, days_inactive) ==
    IF days_inactive < DECAY_FREE_DAYS
    THEN current_score
    ELSE LET decay == ((days_inactive - DECAY_FREE_DAYS) \div DAYS_PER_WEEK)
                         * DECAY_PER_WEEK * SCORE_SCALE
         IN  current_score - decay

\* calculate_trust_decay, scores in thousandths
calculate_trust_decay(current_score, days_inactive) ==
    IF days_inactive < DECAY_FREE_DAYS
    THEN current_score
    ELSE LET decay == ((days_inactive - DECAY_FREE_DAYS) \div DAYS_PER_WEEK)
                         * DECAY_PER_WEEK * SCORE_SCALE
         IN  Max(TRUST_MIN * SCORE_SCALE, current_score - decay)

\* the scores and the days of inactivity calculate_trust_decay is called with:
\* scores at and near the ends of the range, a fractional one, and one below
\* the range, as update_user_trust stores it when it is passed
MaxDaysInactive == 30
DecayScores == {-20000, 0, 1000, 3500, 50000, 100000}
DecayDays == 0..MaxDaysInactive

\* dataclass TrustUpdate
TrustUpdate(new_score, old_score, change, restrictions_applied) ==
    [new_score |-> new_score, old_score |-> old_score, change |-> change,
     restrictions_applied |-> restrictions_applied]

VARIABLES
    TRUST_INITIAL,  \* settings.TRUST_INITIAL of the process, in thousandths
    trust_db,       \* GroupUser.trust_score: (user, group) -> << >> (no row) or <<score>>
    tpc,            \* task -> where the task is
    top,            \* task -> the operation the task was called for
    targs,          \* task -> the arguments of the call
    trust_update,   \* task -> the TrustUpdate calculated
    trust_session,  \* task -> the uncommitted writes of the task's db_session
    trust_decay     \* task -> the call of calculate_trust_decay and its result

trustVars == <<TRUST_INITIAL, trust_db, tpc, top, targs, trust_update, trust_session, trust_decay>>

\* _get_current_trust.  Without a session the initial score is returned (line
\* 97).  With a session, line 102 evaluates select(...), a name the module
\* never imports: the NameError is caught by `except Exception: pass` (lines
\* 111-112) and line 114 returns the initial score as well.
_get_current_trust(uid, gid, db_session) ==
    IF ~db_session
    THEN TRUST_INITIAL
    ELSE TRUST_INITIAL

\* calculate_trust_update
calculate_trust_update(uid, gid, action_type, severity, db_session) ==
    LET current_trust == _get_current_trust(uid, gid, db_session)
        change == TrustChange(action_type, severity)
        new_score == ClampTrust(current_trust + change)
    IN  TrustUpdate(Round2(new_score), Round2(current_trust), Round2(change),
                    _determine_restrictions(new_score))

NoArgs == [user_id |-> 1, group_id |-> 1, decision |-> "none", action_type |-> "none", severity |-> "none", new_score |-> 0, db_session |-> FALSE]
NoUpdate == TrustUpdate(0, 0, 0, << >>)
NoDecay == [current_score |-> 0, days_inactive |-> 0, result |-> 0]

\* the process starts with some TRUST_INITIAL; a GroupUser row exists for a
\* pair (with the default score of the column) or does not
TrustInitWith(tasks, initial_scores) ==
    /\ TRUST_INITIAL \in initial_scores
    /\ trust_db \in [TrustPairs -> {<< >>, << TRUST_SCORE_DEFAULT * SCORE_SCALE >>}]
    /\ tpc = [t \in tasks |-> "idle"]
    /\ top = [t \in tasks |-> "none"]
    /\ targs = [t \in tasks |-> NoArgs]
    /\ trust_update = [t \in tasks |-> NoUpdate]
    /\ trust_session = [t \in tasks |-> << >>]
    /\ trust_decay = [t \in tasks |-> NoDecay]

TrustInit(tasks) == TrustInitWith(tasks, {c * SCORE_SCALE : c \in TrustInitialChoices})

TTasks == DOMAIN tpc

\* a caller awaits calculate_trust_update(uid, gid, action_type,
\* severity, db_session): the call runs to its return without suspending
calculate_trust_update_call(t) ==
    /\ tpc[t] = "idle"
    /\ \E p \in TrustPairs, a \in ActionArguments, db_session \in BOOLEAN :
          /\ targs' = [targs EXCEPT ![t] = [user_id |-> p[1], group_id |-> p[2],
                                            decision |-> "none",
                                            action_type |-> a[1], severity |-> a[2],
                                            new_score |-> 0, db_session |-> db_session]]
          /\ trust_update' = [trust_update EXCEPT ![t] =
                calculate_trust_update(p[1], p[2], a[1], a[2], db_session)]
    /\ top' = [top EXCEPT ![t] = "calculate_trust_update"]
    /\ tpc' = [tpc EXCEPT ![t] = "done"]
    /\ UNCHANGED <<TRUST_INITIAL, trust_db, trust_session, trust_decay>>

\* a caller awaits update_user_trust(user_id, group_id, new_score, db_session),
\* lines 128-137: without a session the call returns at once
update_user_trust_call(t) ==
    /\ tpc[t] = "idle"
    /\ \E p \in TrustPairs, new_score \in ScoreArguments, db_session \in BOOLEAN :
          /\ targs' = [targs EXCEPT ![t] = [user_id |-> p[1], group_id |-> p[2],
                                            decision |-> "none",
                                            action_type |-> "none", severity |-> "none",
                                            new_score |-> new_score,
                                            db_session |-> db_session]]
          /\ tpc' = [tpc EXCEPT ![t] = IF db_session THEN "upd_execute" ELSE "done"]
    /\ top' = [top EXCEPT ![t] = "update_user_trust"]
    /\ UNCHANGED <<TRUST_INITIAL, trust_db, trust_update, trust_session, trust_decay>>

\* _execute_action called with the assessment of a message.  Lines 797-798:
\* with the decision "allow" it returns at once.  Lines 825-835 otherwise:
\* the update is calculated without a session, then a session is opened and
\* update_user_trust awaited with the calculated new_score
execute_action_call(t) ==
    /\ tpc[t] = "idle"
    /\ \E p \in TrustPairs, risk_level \in AssessedLevels :
          LET decision == DecisionOfLevel(risk_level)
              update == calculate_trust_update(p[1], p[2], "violation", risk_level, FALSE)
          IN  IF decision = "allow"
              THEN /\ targs' = [targs EXCEPT ![t] = [NoArgs EXCEPT !.user_id = p[1],
                                                                   !.group_id = p[2],
                                                                   !.decision = decision]]
                   /\ tpc' = [tpc EXCEPT ![t] = "done"]
                   /\ UNCHANGED trust_update
              ELSE /\ trust_update' = [trust_update EXCEPT ![t] = update]
                   /\ targs' = [targs EXCEPT ![t] = [user_id |-> p[1], group_id |-> p[2],
                                                     decision |-> decision,
                                                     action_type |-> "violation",
                                                     severity |-> risk_level,
                                                     new_score |-> update.new_score,
                                                     db_session |-> TRUE]]
                   /\ tpc' = [tpc EXCEPT ![t] = "upd_execute"]
    /\ top' = [top EXCEPT ![t] = "_execute_action"]
    /\ UNCHANGED <<TRUST_INITIAL, trust_db, trust_session, trust_decay>>

\* a caller calls calculate_trust_decay(current_score, days_inactive)
calculate_trust_decay_call(t) ==
    /\ tpc[t] = "idle"
    /\ \E current_score \in DecayScores, days_inactive \in DecayDays :
          trust_decay' = [trust_decay EXCEPT ![t] =
                [current_score |-> current_score, days_inactive |-> days_inactive,
                 result |-> calculate_trust_decay(current_score, days_inactive)]]
    /\ top' = [top EXCEPT ![t] = "calculate_trust_decay"]
    /\ tpc' = [tpc EXCEPT ![t] = "done"]
    /\ UNCHANGED <<TRUST_INITIAL, trust_db, targs, trust_update, trust_session>>

\* the UPDATE ... WHERE user_id, group_id of update_user_trust, lines 143-150:
\* the row of the pair, if there is one, gets the score
UpdateRow(db, uid, gid, new_score) ==
    IF db[<<uid, gid>>] # << >>
    THEN [db EXCEPT ![<<uid, gid>>] = << new_score >>]
    ELSE db

\* update_user_trust, lines 143-150: the UPDATE is executed in the
\* transaction of the session; nothing is stored until the commit
update_user_trust_execute(t) ==
    /\ tpc[t] = "upd_execute"
    /\ trust_session' = [trust_session EXCEPT ![t] =
                            << [user_id |-> targs[t].user_id,
                                group_id |-> targs[t].group_id,
                                trust_score |-> targs[t].new_score] >>]
    /\ tpc' = [tpc EXCEPT ![t] = "upd_commit"]
    /\ UNCHANGED <<TRUST_INITIAL, trust_db, top, targs, trust_update, trust_decay>>

\* the database after the commit of the writes of a session
Committed(db, writes) ==
    IF writes = << >> THEN db
    ELSE UpdateRow(db, writes[1].user_id, writes[1].group_id, writes[1].trust_score)

\* update_user_trust, line 151: the transaction is committed
update_user_trust_commit(t) ==
    /\ tpc[t] = "upd_commit"
    /\ trust_db' = Committed(trust_db, trust_session[t])
    /\ trust_session' = [trust_session EXCEPT ![t] = << >>]
    /\ tpc' = [tpc EXCEPT ![t] = "done"]
    /\ UNCHANGED <<TRUST_INITIAL, top, targs, trust_update, trust_decay>>

\* the except clause committing the transaction instead of rolling it back
Rollback_Commits(db, writes) == Committed(db, writes)

\* db_session.rollback(): the database after the writes of the session are
\* discarded
Rollback(db, writes) == db

\* update_user_trust, lines 152-154: execute (line 143) or commit (line 151)
\* raises, the session is rolled back and the exception raised again
update_user_trust_rollback(t) ==
    /\ tpc[t] \in {"upd_execute", "upd_commit"}
    /\ trust_db' = Rollback(trust_db, trust_session[t])
    /\ trust_session' = [trust_session EXCEPT ![t] = << >>]
    /\ tpc' = [tpc EXCEPT ![t] = "raised"]
    /\ UNCHANGED <<TRUST_INITIAL, top, targs, trust_update, trust_decay>>

\* the caller has taken the result or the exception
trust_return(t) ==
    /\ tpc[t] \in {"done", "raised"}
    /\ tpc' = [tpc EXCEPT ![t] = "idle"]
    /\ top' = [top EXCEPT ![t] = "none"]
    /\ targs' = [targs EXCEPT ![t] = NoArgs]
    /\ trust_update' = [trust_update EXCEPT ![t] = NoUpdate]
    /\ trust_decay' = [trust_decay EXCEPT ![t] = NoDecay]
    /\ UNCHANGED <<TRUST_INITIAL, trust_db, trust_session>>

(***************************************************************************)
(* Claims about TrustEngine.                                               *)
(***************************************************************************)
\* the task has the result of a call of calculate_trust_update
HasTrustUpdate(t) == top[t] = "calculate_trust_update" /\ tpc[t] = "done"

InTrustRange(score) ==
    /\ TRUST_MIN * SCORE_SCALE <= score
    /\ score <= TRUST_MAX * SCORE_SCALE

\* C5: the new_score of every TrustUpdate returned by calculate_trust_update
\* is at least TRUST_MIN and at most TRUST_MAX, whatever the action type, the
\* severity and the current score.
C5_NewScoreInRange ==
    \A t \in TTasks : HasTrustUpdate(t) => InTrustRange(trust_update[t].new_score)

\* a returned update whose old score plus change lies outside the range
C5_Witness ==
    \E t \in TTasks :
        /\ HasTrustUpdate(t)
        /\ ~InTrustRange(trust_update[t].old_score + trust_update[t].change)
        /\ trust_update[t].new_score \in {TRUST_MIN * SCORE_SCALE, TRUST_MAX * SCORE_SCALE}

\* C6: calculate_trust_update takes as old score the score stored for the
\* pair.  A call made with a session while a row of the pair stores s returns
\* old_score = s and new_score = clamp(s + change).
C6_OldScoreIsStoredScore ==
    [][\A t \in TTasks :
          (/\ calculate_trust_update_call(t)
           /\ targs'[t].db_session
           /\ trust_db[<<targs'[t].user_id, targs'[t].group_id>>] # << >>)
          => LET s == trust_db[<<targs'[t].user_id, targs'[t].group_id>>][1]
             IN  /\ trust_update'[t].old_score = Round2(s)
                 /\ trust_update'[t].new_score
                       = Round2(ClampTrust(s + trust_update'[t].change))
      ]_trustVars

\* C7: the score stored for a pair is always within [TRUST_MIN, TRUST_MAX].
C7_StoredScoreInRange ==
    \A p \in TrustPairs : trust_db[p] # << >> => InTrustRange(trust_db[p][1])

\* the task has processed a violation of the pair and its update is committed
ViolationProcessed(t, p) ==
    /\ top[t] = "_execute_action"
    /\ tpc[t] = "done"
    /\ targs[t].action_type = "violation"
    /\ <<targs[t].user_id, targs[t].group_id>> = p

\* C8: no update is lost.  When two tasks have each processed a violation of
\* the same pair, one of the two updates was calculated on the result of the
\* other, and the stored score is its new score.
C8_NoLostUpdate ==
    \A p \in TrustPairs :
        \A a, b \in TTasks :
            (/\ a # b
             /\ trust_db[p] # << >>
             /\ ViolationProcessed(a, p)
             /\ ViolationProcessed(b, p))
            => \E first, second \in {a, b} :
                  /\ first # second
                  /\ trust_update[second].old_score = trust_update[first].new_score
                  /\ trust_db[p] = << trust_update[second].new_score >>

\* the task is in the write of update_user_trust: at the execute or at the
\* commit
InStorageWrite(t) == tpc[t] \in {"upd_execute", "upd_commit"}

\* C17: a failed storage write is surfaced and rolled back.  A step that ends
\* the write of a task without committing it ends the call with the
\* exception, leaves the stored score of every pair as it was and leaves no
\* uncommitted write behind.
C17_FailedWriteRolledBack ==
    [][\A t \in TTasks :
          (/\ InStorageWrite(t)
           /\ ~InStorageWrite(t)'
           /\ ~update_user_trust_commit(t))
          => /\ tpc'[t] = "raised"
             /\ trust_db' = trust_db
             /\ trust_session'[t] = << >>
      ]_trustVars

\* a call of update_user_trust that raised, for a pair whose row stores a
\* score other than the one the call was to write
C17_Witness ==
    \E t \in TTasks :
        /\ tpc[t] = "raised"
        /\ top[t] = "update_user_trust"
        /\ trust_db[<<targs[t].user_id, targs[t].group_id>>] # << >>
        /\ trust_db[<<targs[t].user_id, targs[t].group_id>>] # << targs[t].new_score >>

\* the change of each action type and severity, in thousandths
ChangeTable ==
    [positive_interaction |-> [s \in Severities |-> 800],
     violation |-> [low |-> -5000, medium |-> -10000, high |-> -15000,
                    critical |-> -25000],
     mute |-> [s \in Severities |-> -8000],
     ban_attempt |-> [s \in Severities |-> -15000]]

\* C22: the change of a returned TrustUpdate is +0.8 for a positive
\* interaction, -5, -10, -15, -25 for a violation of severity low, medium,
\* high, critical, -8 for a mute and -15 for a ban attempt, whatever the
\* current score, the user and the group.
C22_ChangeByAction ==
    \A t \in TTasks :
        (/\ HasTrustUpdate(t)
         /\ targs[t].action_type \in DOMAIN ChangeTable
         /\ targs[t].severity \in DOMAIN ChangeTable[targs[t].action_type])
        => trust_update[t].change = ChangeTable[targs[t].action_type][targs[t].severity]

\* a critical violation of the second user, calculated on the lowest current
\* score: the change is -25 although the score cannot fall
C22_Witness ==
    \E t \in TTasks :
        /\ HasTrustUpdate(t)
        /\ targs[t].action_type = "violation"
        /\ targs[t].severity = "critical"
        /\ targs[t].user_id = 2
        /\ trust_update[t].old_score = TRUST_MIN * SCORE_SCALE
        /\ trust_update[t].change = -25000

\* _execute_action has returned to handle_message
ActionExecuted(t) == top[t] = "_execute_action" /\ tpc[t] = "done"

\* C23: the trust score of the sender is written after every risk
\* assessment.  When _execute_action has returned, a trust update of the
\* sender was calculated for the write: one with a positive change after the
\* decision "allow", one with a negative change after "warn" or "block".
C23_TrustWrittenAfterAssessment ==
    \A t \in TTasks :
        ActionExecuted(t)
        => /\ targs[t].decision = "allow" => trust_update[t].change > 0
           /\ targs[t].decision \in {"warn", "block"} => trust_update[t].change < 0

\* the task has the result of a call of calculate_trust_decay
HasDecay(t) == top[t] = "calculate_trust_decay" /\ tpc[t] = "done"

\* whole weeks of inactivity after the first seven days
DecayWeeks(days_inactive) == (days_inactive - 7) \div 7

\* C25 as the specification states it: the score is returned unchanged for
\* fewer than 14 days of inactivity and is otherwise current_score less 2 a
\* whole week after the first seven days; the result is never below
\* TRUST_MIN and never above current_score, for every score and every number
\* of days.
C25_DecayAsStated ==
    \A t \in TTasks :
        HasDecay(t)
        => LET d == trust_decay[t]
           IN  /\ d.days_inactive < 14 => d.result = d.current_score
               /\ d.days_inactive >= 14
                     => d.result = d.current_score - 2 * SCORE_SCALE * DecayWeeks(d.days_inactive)
               /\ d.result >= TRUST_MIN * SCORE_SCALE
               /\ d.result <= d.current_score

\* C25, amended: for a current_score of at least TRUST_MIN the result is
\* current_score for fewer than 14 days of inactivity and otherwise the
\* larger of TRUST_MIN and current_score less 2 a whole week after the first
\* seven days; it is never below TRUST_MIN and never above current_score.
C25_DecayFloored ==
    \A t \in TTasks :
        (HasDecay(t) /\ trust_decay[t].current_score >= TRUST_MIN * SCORE_SCALE)
        => LET d == trust_decay[t]
               less == d.current_score - 2 * SCORE_SCALE * DecayWeeks(d.days_inactive)
           IN  /\ d.days_inactive < 14 => d.result = d.current_score
               /\ d.days_inactive >= 14
                     => d.result = IF less < TRUST_MIN * SCORE_SCALE
                                   THEN TRUST_MIN * SCORE_SCALE ELSE less
               /\ d.result >= TRUST_MIN * SCORE_SCALE
               /\ d.result <= d.current_score

\* a score of 3.5 after three weeks of inactivity: 3.5 less 4 is floored
C25_Witness ==
    \E t \in TTasks :
        /\ HasDecay(t)
        /\ trust_decay[t].current_score = 3500
        /\ trust_decay[t].days_inactive = 21
        /\ trust_decay[t].result = TRUST_MIN * SCORE_SCALE

\* the restriction is among those of the update the task was returned
Restricted(t, restriction) ==
    \E i \in DOMAIN trust_update[t].restrictions_applied :
        trust_update[t].restrictions_applied[i] = restriction

ExactScore(t) ==
    LET sum == TRUST_INITIAL + trust_update[t].change
    IN  IF sum < 0 THEN 0 ELSE IF sum > 100000 THEN 100000 ELSE sum

PairOf(t) == <<targs[t].user_id, targs[t].group_id>>

\* C24: a trust record exists for a pair from its first lookup on, and an
\* update_user_trust(u, g, s) that reports no failure is observable.  After a
\* lookup of a pair made with a session the pair has a record; when a call
\* of update_user_trust returns without an exception, the record of the pair
\* holds s and the next lookup of the pair returns s.
C24_UpdateObservable ==
    [][\A t \in TTasks :
          /\ (calculate_trust_update_call(t) /\ targs'[t].db_session)
                => trust_db'[PairOf(t)'] # << >>
          /\ (top'[t] = "update_user_trust" /\ tpc[t] # "done" /\ tpc'[t] = "done")
                => /\ trust_db'[PairOf(t)'] = << targs'[t].new_score >>
                   /\ _get_current_trust(targs'[t].user_id, targs'[t].group_id, TRUE)'
                         = targs'[t].new_score
      ]_trustVars

(***************************************************************************)
(* RiskScoringEngine (src/risk_engine.py).  Factor values, raw, escalated  *)
(* and normalized scores are kept in ten-thousandths: RISK_ONE is 1.0, and *)
(* a final_score is kept in ten-thousandths of 100 (8500 is 85.0).         *)
(* Products and quotients are rounded down to a ten-thousandth.  Weights   *)
(* are in hundredths.  Trust scores are in thousandths, as above.          *)
(***************************************************************************)
RISK_ONE == 10000
WEIGHT_ONE == 100
\* final_score = normalized_score * 100, in hundredths of a point
FINAL_PER_POINT == 100

\* settings.RISK_WEIGHT_*, in hundredths (RISK_WEIGHTS of settings.py)
RISK_WEIGHT_SPAM == 18
RISK_WEIGHT_TOXIC == 14
RISK_WEIGHT_SCAM == 16
RISK_WEIGHT_ILLEGAL == 18
RISK_WEIGHT_PHISHING == 14
RISK_WEIGHT_NSFW == 12
RISK_WEIGHT_FLOOD == 10
RISK_WEIGHT_USER_HISTORY == 10
RISK_WEIGHT_SIMILARITY == 8
RISK_WEIGHT_LINK_SUSPICIOUS == 10

\* settings.RISK_THRESHOLD_*
RISK_THRESHOLD_CRITICAL == 85
RISK_THRESHOLD_HIGH == 70
RISK_THRESHOLD_MEDIUM == 50

\* the fields of RiskFactors, in the order of factor_values of
\* _apply_risk_formula
FactorNames == <<"spam", "toxic", "scam", "illegal", "phishing", "nsfw", "flood",
                 "user_history", "similarity", "link_suspicious">>

\* RISK_WEIGHTS
RISK_WEIGHTS ==
    [spam |-> RISK_WEIGHT_SPAM, toxic |-> RISK_WEIGHT_TOXIC,
     scam |-> RISK_WEIGHT_SCAM, illegal |-> RISK_WEIGHT_ILLEGAL,
     phishing |-> RISK_WEIGHT_PHISHING, nsfw |-> RISK_WEIGHT_NSFW,
     flood |-> RISK_WEIGHT_FLOOD, user_history |-> RISK_WEIGHT_USER_HISTORY,
     similarity |-> RISK_WEIGHT_SIMILARITY,
     link_suspicious |-> RISK_WEIGHT_LINK_SUSPICIOUS]

(***************************************************************************)
(* Values of the dictionaries given to calculate_risk.  A dictionary is a  *)
(* function of the keys it has; a value is a number, None or a string.     *)
(***************************************************************************)
Num(v) == [kind |-> "num", v |-> v]
NoneValue == [kind |-> "none", v |-> 0]
StrValue == [kind |-> "str", v |-> 0]
\* an operation on a value that is no number raised TypeError
Raised == [kind |-> "raised", v |-> 0]

IsNum(x) == x.kind = "num"

\* d.get(key, default)
Get(d, key, default) == IF key \in DOMAIN d THEN d[key] ELSE Num(default)

\* 1 / (1 + math.exp(-10 * (i / 100 - 0.5))) for i = 0 .. 100, in
\* ten-thousandths
SigmoidTable ==
    << 67, 74, 82, 90, 100, 110, 121, 134, 148, 163,
       180, 198, 219, 241, 266, 293, 323, 356, 392, 431,
       474, 522, 573, 630, 691, 759, 832, 911, 998, 1091,
       1192, 1301, 1419, 1545, 1680, 1824, 1978, 2142, 2315, 2497,
       2689, 2891, 3100, 3318, 3543, 3775, 4013, 4256, 4502, 4750,
       5000, 5250, 5498, 5744, 5987, 6225, 6457, 6682, 6900, 7109,
       7311, 7503, 7685, 7858, 8022, 8176, 8320, 8455, 8581, 8699,
       8808, 8909, 9002, 9089, 9168, 9241, 9309, 9370, 9427, 9478,
       9526, 9569, 9608, 9644, 9677, 9707, 9734, 9759, 9781, 9802,
       9820, 9837, 9852, 9866, 9879, 9890, 9900, 9910, 9918, 9926,
       9933 >>

\* _sigmoid_smooth with k = 10: the tabulated values, linear between two of them
_sigmoid_smooth(score) ==
    LET i == score \div 100
        r == score % 100
    IN  IF i >= 100 THEN SigmoidTable[101]
        ELSE SigmoidTable[i + 1]
               + ((SigmoidTable[i + 2] - SigmoidTable[i + 1]) * r) \div 100

\* dataclass RiskFactors
RiskFactors(spam, toxic, scam, illegal, phishing, nsfw, flood, user_history, similarity, link_suspicious) ==
    [spam |-> spam, toxic |-> toxic, scam |-> scam, illegal |-> illegal,
     phishing |-> phishing, nsfw |-> nsfw, flood |-> flood,
     user_history |-> user_history, similarity |-> similarity,
     link_suspicious |-> link_suspicious]

\* dataclass RiskAssessment (processing_time_ms, a measurement, is left out)
RiskAssessment(final_score, normalized_score, risk_level, factors, decision, action, confidence) ==
    [final_score |-> final_score, normalized_score |-> normalized_score,
     risk_level |-> risk_level, factors |-> factors, decision |-> decision,
     action |-> action, confidence |-> confidence]

\* _calculate_flood_factor: messages per minute, 0 up to 5, 1 from 20 on,
\* linear between.  rate <= 5 is recent * 60 <= 5 * window for a window > 0.
_calculate_flood_factor(context) ==
    LET recent_messages == Get(context, "recent_user_messages", 0)
        time_window == Get(context, "time_window_seconds", 60)
        r == recent_messages.v
        w == time_window.v
    IN  IF \/ (IsNum(recent_messages) /\ r = 0)
           \/ (IsNum(time_window) /\ w = 0)
        THEN Num(0)
        ELSE IF ~IsNum(recent_messages) \/ ~IsNum(time_window) THEN Raised
        ELSE IF r * 60 <= 5 * w THEN Num(0)
        ELSE IF r * 60 >= 20 * w THEN Num(RISK_ONE)
        ELSE Num(((r * 60 - 5 * w) * RISK_ONE) \div (15 * w))

\* _calculate_user_history_factor
_calculate_user_history_factor(user_history) ==
    LET violations_24h == Get(user_history, "violations_24h", 0)
        violations_7d == Get(user_history, "violations_7d", 0)
        trust_score == Get(user_history, "trust_score", 50 * SCORE_SCALE)
        recent_factor == Min((3 * violations_24h.v + violations_7d.v) * (RISK_ONE \div 10),
                             RISK_ONE)
        trust_factor == Max(0, ((50 * SCORE_SCALE - trust_score.v) * RISK_ONE)
                                  \div (50 * SCORE_SCALE))
    IN  IF ~IsNum(violations_24h) \/ ~IsNum(violations_7d) \/ ~IsNum(trust_score)
        THEN Raised
        ELSE Num(Min((recent_factor * 6 + trust_factor * 4) \div 10, RISK_ONE))

\* _calculate_similarity_factor: 0.0 on both paths
_calculate_similarity_factor(message_length) ==
    IF message_length < 10 THEN Num(0) ELSE Num(0)

\* _calculate_link_factor
_calculate_link_factor(message_length, ai_analysis) ==
    LET link_score == Get(ai_analysis, "suspicious_links", 0)
        phishing_score == Get(ai_analysis, "phishing", 0)
    IN  IF message_length = 0 THEN Num(0)
        ELSE IF ~IsNum(phishing_score) \/ ~IsNum(link_score) THEN Raised
        ELSE Num(Max(link_score.v, (phishing_score.v * 8) \div 10))

RECURSIVE RiskProduct(_, _)
\* the product of (1 - weight * score) over the first n factors
RiskProduct(factors, n) ==
    IF n = 0 THEN RISK_ONE
    ELSE LET name == FactorNames[n]
             term == RISK_ONE - (RISK_WEIGHTS[name] * factors[name].v) \div WEIGHT_ONE
         IN  (RiskProduct(factors, n - 1) * term) \div RISK_ONE

\* _apply_risk_formula returning the product instead of 1 - product
_apply_risk_formula_Product(factors) ==
    IF \E i \in 1..Len(FactorNames) : ~IsNum(factors[FactorNames[i]])
    THEN Raised
    ELSE Num(Min(Max(RiskProduct(factors, Len(FactorNames)), 0), RISK_ONE))

\* _apply_risk_formula: 1 - product, clamped to [0, 1]
_apply_risk_formula(factors) ==
    IF \E i \in 1..Len(FactorNames) : ~IsNum(factors[FactorNames[i]])
    THEN Raised
    ELSE Num(Min(Max(RISK_ONE - RiskProduct(factors, Len(FactorNames)), 0), RISK_ONE))

\* _apply_dynamic_escalation: raw * 1.15 if violations_24h > 3, * 1.25 if
\* trust_score < 20, at most 1.0
_apply_dynamic_escalation(raw_score, user_history) ==
    LET violations_24h == Get(user_history, "violations_24h", 0)
        trust_score == Get(user_history, "trust_score", 50 * SCORE_SCALE)
        by_violations == IF violations_24h.v > 3 THEN 115 ELSE 100
        by_trust == IF trust_score.v < 20 * SCORE_SCALE THEN 125 ELSE 100
    IN  IF ~IsNum(violations_24h) \/ ~IsNum(trust_score) THEN Raised
        ELSE Num(Min((raw_score * by_violations * by_trust) \div (100 * 100), RISK_ONE))

\* _determine_action comparing with 'greater than' instead of 'greater than
\* or equal'
_determine_action_Strict(final_score) ==
    IF final_score > RISK_THRESHOLD_CRITICAL * FINAL_PER_POINT
    THEN <<"critical", "block", "delete_mute_notify">>
    ELSE IF final_score > RISK_THRESHOLD_HIGH * FINAL_PER_POINT
    THEN <<"high", "block", "delete_warn">>
    ELSE IF final_score > RISK_THRESHOLD_MEDIUM * FINAL_PER_POINT
    THEN <<"medium", "warn", "soft_warn_monitor">>
    ELSE <<"low", "allow", "allow">>

\* _determine_action
_determine_action(final_score) ==
    IF final_score >= RISK_THRESHOLD_CRITICAL * FINAL_PER_POINT
    THEN <<"critical", "block", "delete_mute_notify">>
    ELSE IF final_score >= RISK_THRESHOLD_HIGH * FINAL_PER_POINT
    THEN <<"high", "block", "delete_warn">>
    ELSE IF final_score >= RISK_THRESHOLD_MEDIUM * FINAL_PER_POINT
    THEN <<"medium", "warn", "soft_warn_monitor">>
    ELSE <<"low", "allow", "allow">>

\* round(x, 2) on ten-thousandths: to the nearest hundredth, halves to even
RoundHundredths(x) ==
    LET q == x \div 100
        r == x % 100
    IN  IF r < 50 THEN 100 * q
        ELSE IF r > 50 THEN 100 * (q + 1)
        ELSE IF q % 2 = 0 THEN 100 * q ELSE 100 * (q + 1)

\* _calculate_confidence without the floor of 0.5
_calculate_confidence_NoFloor(factors, ai_analysis) ==
    LET ai_confidence == Get(ai_analysis, "confidence", (8 * RISK_ONE) \div 10)
        values == <<factors.spam.v, factors.toxic.v, factors.scam.v,
                    factors.illegal.v, factors.phishing.v, factors.nsfw.v>>
        total == values[1] + values[2] + values[3] + values[4] + values[5] + values[6]
        mean == total \div 6
        sq(x) == ((x - mean) * (x - mean)) \div RISK_ONE
        variance == (sq(values[1]) + sq(values[2]) + sq(values[3])
                       + sq(values[4]) + sq(values[5]) + sq(values[6])) \div 6
        variance_penalty == Min(variance * 2, (2 * RISK_ONE) \div 10)
    IN  IF ~IsNum(ai_confidence) THEN Raised
        ELSE Num(RoundHundredths(ai_confidence.v - variance_penalty))

\* _calculate_confidence: the classifier's confidence (0.8 when absent) less
\* min(2 * variance of the six content factors, 0.2), at least 0.5
_calculate_confidence(factors, ai_analysis) ==
    LET ai_confidence == Get(ai_analysis, "confidence", (8 * RISK_ONE) \div 10)
        values == <<factors.spam.v, factors.toxic.v, factors.scam.v,
                    factors.illegal.v, factors.phishing.v, factors.nsfw.v>>
        total == values[1] + values[2] + values[3] + values[4] + values[5] + values[6]
        mean == total \div 6
        sq(x) == ((x - mean) * (x - mean)) \div RISK_ONE
        variance == (sq(values[1]) + sq(values[2]) + sq(values[3])
                       + sq(values[4]) + sq(values[5]) + sq(values[6])) \div 6
        variance_penalty == Min(variance * 2, (2 * RISK_ONE) \div 10)
    IN  IF ~IsNum(ai_confidence) THEN Raised
        ELSE Num(RoundHundredths(Max(RISK_ONE \div 2, ai_confidence.v - variance_penalty)))

\* calculate_risk, lines 121-129: the formula, the escalation and the
\* smoothing, for factors that are numbers
NormalizedScore(factors, user_history) ==
    LET raw_score == _apply_risk_formula(factors)
        escalated_score == _apply_dynamic_escalation(raw_score.v, user_history)
    IN  _sigmoid_smooth(escalated_score.v)

\* calculate_risk, line 132: final_score = normalized_score * 100
FinalScore(factors, user_history) ==
    (NormalizedScore(factors, user_history) * 100 * FINAL_PER_POINT) \div RISK_ONE

\* what a call of calculate_risk gives its caller: an exception or a
\* RiskAssessment
RiskRaised == [raised |-> TRUE]
RiskReturned(assessment) == [raised |-> FALSE, assessment |-> assessment]

\* calculate_risk
calculate_risk(message_length, ai_analysis, user_history, context) ==
    LET flood == _calculate_flood_factor(context)
        history == _calculate_user_history_factor(user_history)
        similarity == _calculate_similarity_factor(message_length)
        link_suspicious == _calculate_link_factor(message_length, ai_analysis)
        factors == RiskFactors(Get(ai_analysis, "spam", 0),
                               Get(ai_analysis, "toxicity", 0),
                               Get(ai_analysis, "scam", 0),
                               Get(ai_analysis, "illegal", 0),
                               Get(ai_analysis, "phishing", 0),
                               Get(ai_analysis, "nsfw", 0),
                               flood, history, similarity, link_suspicious)
        final_score == FinalScore(factors, user_history)
        normalized_score == NormalizedScore(factors, user_history)
        level == _determine_action(final_score)
        confidence == _calculate_confidence(factors, ai_analysis)
    IN  IF \/ flood = Raised
           \/ history = Raised
           \/ link_suspicious = Raised
           \/ _apply_risk_formula(factors) = Raised
           \/ confidence = Raised
        THEN RiskRaised
        ELSE RiskReturned(RiskAssessment(final_score, normalized_score, level[1],
                                         factors, level[2], level[3], confidence.v))

(***************************************************************************)
(* The inputs calculate_risk is called with.                               *)
(***************************************************************************)
\* a score of the classifier: 0.0, 0.5, 1.0
ScoreChoices == {0, RISK_ONE \div 2, RISK_ONE}
\* the content categories of ai_analysis
CategoryKeys == {"spam", "toxicity", "scam", "illegal", "phishing", "nsfw"}
AiKeys == CategoryKeys \cup {"suspicious_links"}

\* a dictionary d without the key k
Without(d, k) == [x \in DOMAIN d \ {k} |-> d[x]]
\* a dictionary d with the value v at the key k
With(d, k, v) == [x \in DOMAIN d \cup {k} |-> IF x = k THEN v ELSE d[x]]

\* the dictionaries with every key of base, one of which is missing, None or a
\* string
Malformed(base) ==
    {Without(base, k) : k \in DOMAIN base}
      \cup {With(base, k, v) : k \in DOMAIN base, v \in {NoneValue, StrValue}}

\* ai_analysis: a number for every category, with or without a confidence; or
\* one entry missing, None or a string
AiBase == [k \in AiKeys \cup {"confidence"} |-> Num(RISK_ONE \div 2)]
AiChoices ==
    { [k \in AiKeys |-> Num(f[k])] : f \in [AiKeys -> ScoreChoices] }
      \cup { With([k \in AiKeys |-> Num(v)], "confidence", Num((3 * RISK_ONE) \div 10)) :
               v \in ScoreChoices }

\* user_history: violations_24h, violations_7d, total_violations, trust_score
UserHistory(violations_24h, violations_7d, total_violations, trust_score) ==
    [violations_24h |-> Num(violations_24h), violations_7d |-> Num(violations_7d),
     total_violations |-> Num(total_violations),
     trust_score |-> Num(trust_score * SCORE_SCALE)]
HistoryBase == UserHistory(0, 0, 0, 50)
HistoryChoices ==
    { HistoryBase, UserHistory(1, 2, 2, 19), UserHistory(4, 4, 4, 50),
      UserHistory(4, 4, 9, 10) }

\* context: recent_user_messages in time_window_seconds
Context(recent_user_messages, time_window_seconds) ==
    [recent_user_messages |-> Num(recent_user_messages),
     time_window_seconds |-> Num(time_window_seconds)]
ContextBase == Context(10, 60)
ContextChoices ==
    { ContextBase, Context(0, 60), Context(25, 60), Context(5, 0) }

\* len(message_text) of a text of 10 characters or more
MessageLength == 20

\* the arguments of a call
RiskArgs(message_length, ai_analysis, user_history, context) ==
    [message_length |-> message_length, ai_analysis |-> ai_analysis,
     user_history |-> user_history, context |-> context, final_score |-> 0]

\* the calls made: every combination of dictionaries of numbers for a text;
\* the empty text; and one dictionary with an entry missing, None or a string
RiskInputs ==
    { RiskArgs(MessageLength, a, h, c) :
        a \in AiChoices, h \in HistoryChoices, c \in ContextChoices }
      \cup { RiskArgs(0, a, HistoryBase, ContextBase) : a \in AiChoices }
      \cup { RiskArgs(MessageLength, a, HistoryBase, ContextBase) : a \in Malformed(AiBase) }
      \cup { RiskArgs(0, a, HistoryBase, ContextBase) : a \in Malformed(AiBase) }
      \cup { RiskArgs(MessageLength, AiBase, h, ContextBase) : h \in Malformed(HistoryBase) }
      \cup { RiskArgs(MessageLength, AiBase, HistoryBase, c) : c \in Malformed(ContextBase) }

\* final_score arguments of _determine_action: each threshold, a hundredth
\* below and a hundredth above it, 0 and 100
FinalScoreChoices ==
    {0, 100 * FINAL_PER_POINT}
      \cup { th * FINAL_PER_POINT + d :
               th \in {RISK_THRESHOLD_MEDIUM, RISK_THRESHOLD_HIGH, RISK_THRESHOLD_CRITICAL},
               d \in {0 - 1, 0, 1} }

RiskTasks == {"r1"}

VARIABLES
    rpc,                \* task -> where the task is
    rop,                \* task -> the operation the task was called for
    rargs,              \* task -> the arguments of the call
    risk_assessment     \* task -> what the call gave its caller

riskVars == <<rpc, rop, rargs, risk_assessment>>

NoRiskArgs == RiskArgs(0, << >>, << >>, << >>)
NoAssessment ==
    RiskAssessment(0, 0, "low", << >>, "allow", "allow", 0)

\* RiskScoringEngine.__init__, with the tasks that will call the instance
RiskInit(tasks) ==
    /\ rpc = [t \in tasks |-> "idle"]
    /\ rop = [t \in tasks |-> "none"]
    /\ rargs = [t \in tasks |-> NoRiskArgs]
    /\ risk_assessment = [t \in tasks |-> RiskReturned(NoAssessment)]

RTasks == DOMAIN rpc

\* a caller awaits calculate_risk(message_text, user_id, group_id, ai_analysis,
\* user_history, context): the call returns a RiskAssessment or raises
calculate_risk_call(t) ==
    /\ rpc[t] = "idle"
    /\ \E args \in RiskInputs :
          LET result == calculate_risk(args.message_length, args.ai_analysis,
                                       args.user_history, args.context)
          IN  /\ rargs' = [rargs EXCEPT ![t] = args]
              /\ risk_assessment' = [risk_assessment EXCEPT ![t] = result]
              /\ rpc' = [rpc EXCEPT ![t] = IF result.raised THEN "raised" ELSE "done"]
    /\ rop' = [rop EXCEPT ![t] = "calculate_risk"]

\* _determine_action(final_score, factors) called on a final_score
determine_action_call(t) ==
    /\ rpc[t] = "idle"
    /\ \E final_score \in FinalScoreChoices :
          LET level == _determine_action(final_score)
          IN  /\ rargs' = [rargs EXCEPT ![t] = [NoRiskArgs EXCEPT !.final_score = final_score]]
              /\ risk_assessment' = [risk_assessment EXCEPT ![t] =
                    RiskReturned([NoAssessment EXCEPT
                                     !.final_score = final_score,
                                     !.risk_level = level[1],
                                     !.decision = level[2],
                                     !.action = level[3]])]
    /\ rop' = [rop EXCEPT ![t] = "_determine_action"]
    /\ rpc' = [rpc EXCEPT ![t] = "done"]

\* the caller has taken the result or the exception
risk_return(t) ==
    /\ rpc[t] \in {"done", "raised"}
    /\ rpc' = [rpc EXCEPT ![t] = "idle"]
    /\ rop' = [rop EXCEPT ![t] = "none"]
    /\ rargs' = [rargs EXCEPT ![t] = NoRiskArgs]
    /\ risk_assessment' = [risk_assessment EXCEPT ![t] = RiskReturned(NoAssessment)]

\* the positions of the window of g whose account is known to be younger than
\* RAID_NEW_ACCOUNT_DAYS at the clock
NewAccountPositions(g) ==
    {i \in 1..Len(join_history[g]) :
        /\ join_history[g][i].account_created_at # << >>
        /\ now - join_history[g][i].account_created_at[1]
              < RAID_NEW_ACCOUNT_DAYS * SECONDS_PER_DAY}

\* the conditions of the rules of detect_raid on the window of g
InsufficientData(g) == Len(join_history[g]) < MIN_EVENTS
MassJoinHolds(g) == Cardinality(RecentPositions(g)) >= RAID_JOIN_THRESHOLD
NewAccountHolds(g) == Cardinality(NewAccountPositions(g)) >= NEW_ACCOUNT_MIN
PatternHolds(g) == _analyze_username_patterns(join_history[g]) > PATTERN_THRESHOLD

\* C18: the rules are evaluated in the order insufficient data, mass join,
\* new-account wave, username pattern, and the first that matches decides:
\* mass_join when mass join and new accounts hold together, new_account_wave
\* when new accounts and username pattern hold together, and not a raid with
\* recommended_action monitor only when no rule matches.
C18_FirstMatchWins ==
    \A t \in Tasks :
        HasRaidResult(t)
        => LET g == group_id[t]
               r == raid_result[t]
           IN  /\ <<r.raid_type, r.recommended_action>> =
                     IF InsufficientData(g) THEN <<"none", "none">>
                     ELSE IF MassJoinHolds(g)
                     THEN <<"mass_join", "enable_slow_mode_restrict_new">>
                     ELSE IF NewAccountHolds(g)
                     THEN <<"new_account_wave", "restrict_new_accounts_verify">>
                     ELSE IF PatternHolds(g)
                     THEN <<"username_pattern", "manual_review_ban_pattern">>
                     ELSE <<"none", "monitor">>
               /\ r.is_raid <=> r.raid_type # "none"
               /\ r.recommended_action = "monitor"
                    <=> ~(InsufficientData(g) \/ MassJoinHolds(g)
                            \/ NewAccountHolds(g) \/ PatternHolds(g))

\* a window on which the three raid rules hold together, classified mass_join
C18_Witness ==
    \E t \in Tasks :
        /\ HasRaidResult(t)
        /\ MassJoinHolds(group_id[t])
        /\ NewAccountHolds(group_id[t])
        /\ PatternHolds(group_id[t])
        /\ raid_result[t].raid_type = "mass_join"

NamedPositions(g) ==
    {i \in 1..Len(join_history[g]) : join_history[g][i].username # << >>}

\* the numbers written in the usernames of the window of g, and how many
\* there are
NumbersAt(g, i) == FindNumbers(join_history[g][i].username)
NumberValues(g) ==
    UNION {{NumbersAt(g, i)[k] : k \in 1..Len(NumbersAt(g, i))} : i \in NamedPositions(g)}
RECURSIVE NumberCount(_, _)
NumberCount(g, n) ==
    IF n = 0 THEN 0
    ELSE NumberCount(g, n - 1)
           + (IF n \in NamedPositions(g) THEN Len(NumbersAt(g, n)) ELSE 0)

\* the counts the score is made of: numbers followed by their successor (2 or
\* more, of 3 numbers or more), names of 8 or more letters and digits, names
\* sharing their first 4 and their last 4 characters whatever the case (3 or
\* more)
SequentialCount(g) ==
    LET seq == Cardinality({v \in NumberValues(g) : v + 1 \in NumberValues(g)})
    IN  IF NumberCount(g, Len(join_history[g])) >= 3 /\ seq >= 2 THEN seq ELSE 0
RandomCount(g) ==
    Cardinality({i \in NamedPositions(g) : IsRandomChars(join_history[g][i].username)})
LongNames(g) == {i \in NamedPositions(g) : Len(join_history[g][i].username) >= 4}
SharedCount(sizes) ==
    LET largest == IF sizes = {} THEN 0 ELSE CHOOSE m \in sizes : \A n \in sizes : n <= m
    IN  IF largest >= 3 THEN largest ELSE 0
SamePrefix(g, i, j) ==
    \A k \in 1..4 : LowerChar(join_history[g][i].username[k])
                       = LowerChar(join_history[g][j].username[k])
SameSuffix(g, i, j) ==
    \A k \in 0..3 :
        LowerChar(join_history[g][i].username[Len(join_history[g][i].username) - k])
           = LowerChar(join_history[g][j].username[Len(join_history[g][j].username) - k])

PrefixCount(g) ==
    SharedCount({Cardinality({j \in LongNames(g) : SamePrefix(g, i, j)}) : i \in LongNames(g)})
SuffixCount(g) ==
    SharedCount({Cardinality({j \in LongNames(g) : SameSuffix(g, i, j)}) : i \in LongNames(g)})

\* the pattern score of the window of g, in twentieths
PatternScore(g) ==
    IF Cardinality(NamedPositions(g)) < PATTERN_MIN_NAMES THEN 0
    ELSE Min(4 * SequentialCount(g), 6) + Min(2 * RandomCount(g), 6)
           + Min(4 * PrefixCount(g), 4) + Min(4 * SuffixCount(g), 4)

\* joined_at of the join of a user of the window of g
JoinedAt(g, user_id) ==
    join_history[g][CHOOSE i \in 1..Len(join_history[g]) :
                       join_history[g][i].user_id = user_id].joined_at

\* users lists the (at most) SIMILAR_USERS_MAX most recently joined users of
\* the window of g, the most recent first
MostRecentUsers(g, users) ==
    /\ Len(users) = Min(Len(join_history[g]), SIMILAR_USERS_MAX)
    /\ \A a, b \in 1..Len(users) :
          /\ a # b => users[a] # users[b]
          /\ a < b => JoinedAt(g, users[a]) >= JoinedAt(g, users[b])
    /\ \A a \in 1..Len(users) :
          /\ \E i \in 1..Len(join_history[g]) : join_history[g][i].user_id = users[a]
          /\ \A i \in 1..Len(join_history[g]) :
                (\A b \in 1..Len(users) : users[b] # join_history[g][i].user_id)
                => JoinedAt(g, users[a]) >= join_history[g][i].joined_at

\* the call of t returned from the username-pattern rule or after it: no
\* earlier rule decided
PatternRuleReached(t) ==
    /\ HasRaidResult(t)
    /\ ~InsufficientData(group_id[t])
    /\ ~MassJoinHolds(group_id[t])
    /\ ~NewAccountHolds(group_id[t])

\* C20: username-pattern rule.  The pattern score is 0 with fewer than 5
\* non-empty usernames in the window and min(seq/5, 0.3) + min(random/10, 0.3)
\* + min(prefix/5, 0.2) + min(suffix/5, 0.2) otherwise, within [0, 1]; when
\* no earlier rule decides, the result is username_pattern exactly when the
\* score is greater than 0.7, with confidence = score and the (at most) 10
\* most recently joined users of the window as affected users.
C20_UsernamePatternRule ==
    \A t \in Tasks :
        PatternRuleReached(t)
        => LET g == group_id[t]
               score == PatternScore(g)
           IN  /\ score \in 0..CONF_ONE
               /\ _analyze_username_patterns(join_history[g]) = score
               /\ IF score > PATTERN_THRESHOLD
                  THEN /\ raid_result[t].is_raid
                       /\ raid_result[t].raid_type = "username_pattern"
                       /\ raid_result[t].confidence = score
                       /\ MostRecentUsers(g, raid_result[t].affected_users)
                  ELSE raid_result[t].raid_type # "username_pattern"

\* a username_pattern result on a window of more than 10 joins
C20_Witness ==
    \E t \in Tasks :
        /\ HasRaidResult(t)
        /\ raid_result[t].raid_type = "username_pattern"
        /\ raid_result[t].confidence = PatternScore(group_id[t])
        /\ Len(join_history[group_id[t]]) > SIMILAR_USERS_MAX
        /\ Len(raid_result[t].affected_users) = SIMILAR_USERS_MAX

\* C16: detect_raid returns a RaidDetectionResult for every join window,
\* whatever the usernames and account creation times of its events: no call
\* ends with an exception.
C16_DetectionNeverRaises ==
    \A t \in Tasks : pc[t] # "raised"

(***************************************************************************)
(* Claims about RiskScoringEngine.                                         *)
(***************************************************************************)
\* the task has a RiskAssessment, of calculate_risk or of _determine_action
HasAssessment(t) == rpc[t] = "done"

\* the tier of a final_score: the number of thresholds it has reached
TierOfScore(final_score) ==
    Cardinality({th \in {RISK_THRESHOLD_MEDIUM, RISK_THRESHOLD_HIGH,
                         RISK_THRESHOLD_CRITICAL} :
                    final_score >= th * FINAL_PER_POINT})

\* the (risk_level, decision, action) of each tier
TierLevels ==
    << <<"medium", "warn", "soft_warn_monitor">>,
       <<"high", "block", "delete_warn">>,
       <<"critical", "block", "delete_mute_notify">> >>

\* C12: a final_score is classified by the highest threshold it is greater
\* than or equal to: critical / high / medium with their decision and action,
\* low / allow / allow below all of them; the decision is block exactly for
\* high and critical, allow exactly for low.
C12_ClassifiedByThresholds ==
    \A t \in RTasks :
        HasAssessment(t)
        => LET a == risk_assessment[t].assessment
               tier == TierOfScore(a.final_score)
           IN  /\ <<a.risk_level, a.decision, a.action>>
                     = IF tier = 0 THEN <<"low", "allow", "allow">> ELSE TierLevels[tier]
               /\ a.decision = "block" <=> a.risk_level \in {"high", "critical"}
               /\ a.decision = "allow" <=> a.risk_level = "low"

\* a final_score exactly equal to the critical threshold, classified critical
C12_Witness ==
    \E t \in RTasks :
        /\ HasAssessment(t)
        /\ rop[t] = "_determine_action"
        /\ risk_assessment[t].assessment.final_score
              = RISK_THRESHOLD_CRITICAL * FINAL_PER_POINT
        /\ risk_assessment[t].assessment.risk_level = "critical"

\* C13: calculate_risk never raises: whatever ai_analysis, user_history and
\* context hold (missing keys, None, strings), the call returns a
\* RiskAssessment.
C13_NeverRaises ==
    \A t \in RTasks : rop[t] = "calculate_risk" => rpc[t] # "raised"

\* the task has the RiskAssessment of a calculate_risk call
HasRiskAssessment(t) == rop[t] = "calculate_risk" /\ rpc[t] = "done"

\* the dictionaries (or RiskFactors) equal to d but for a higher score at k
Raise(d, k) ==
    { With(d, k, Num(v)) : v \in {x \in ScoreChoices : x > d[k].v} }

\* the rank of a risk_level
LevelRank(risk_level) ==
    CASE risk_level = "low" -> 0
      [] risk_level = "medium" -> 1
      [] risk_level = "high" -> 2
      [] risk_level = "critical" -> 3

\* C14: with the factors of a returned assessment in [0, 1], a higher value of
\* one RiskFactors component, the others and user_history fixed, gives a
\* final_score that is not lower and a tier that is not lower; so does a
\* higher value of one ai_analysis category in the call.
C14_Monotone ==
    \A t \in RTasks :
        HasRiskAssessment(t)
        => LET a == risk_assessment[t].assessment
               args == rargs[t]
           IN  /\ \A i \in 1..Len(FactorNames) :
                     /\ a.factors[FactorNames[i]].v \in 0..RISK_ONE
                     /\ \A higher \in Raise(a.factors, FactorNames[i]) :
                           LET final_score == FinalScore(higher, args.user_history)
                           IN  /\ final_score >= a.final_score
                               /\ LevelRank(_determine_action(final_score)[1])
                                     >= LevelRank(a.risk_level)
               /\ \A k \in DOMAIN args.ai_analysis \cap AiKeys :
                     \A higher \in Raise(args.ai_analysis, k) :
                        LET b == calculate_risk(args.message_length, higher,
                                                args.user_history, args.context)
                        IN  /\ ~b.raised
                            /\ b.assessment.final_score >= a.final_score
                            /\ LevelRank(b.assessment.risk_level)
                                  >= LevelRank(a.risk_level)

\* an assessment below the medium threshold for which a higher value of one
\* component gives a strictly higher final_score
C14_Witness ==
    \E t \in RTasks :
        /\ HasRiskAssessment(t)
        /\ \E i \in 1..Len(FactorNames) :
              \E higher \in Raise(risk_assessment[t].assessment.factors, FactorNames[i]) :
                 FinalScore(higher, rargs[t].user_history)
                    > risk_assessment[t].assessment.final_score
        /\ \E k \in CategoryKeys :
              \E higher \in Raise(rargs[t].ai_analysis, k) :
                 LevelRank(calculate_risk(rargs[t].message_length, higher,
                                          rargs[t].user_history,
                                          rargs[t].context).assessment.risk_level)
                    > LevelRank(risk_assessment[t].assessment.risk_level)

\* the RiskFactors components that hold a classifier category
CategoryFactors == {"spam", "toxic", "scam", "illegal", "phishing", "nsfw"}

\* C15: one category score of 1.0, every other factor being 0, gives a
\* blocking decision.
C15_SingleCategoryBlocks ==
    \A t \in RTasks :
        HasRiskAssessment(t)
        => LET a == risk_assessment[t].assessment
           IN  (\E k \in CategoryFactors :
                   /\ a.factors[k].v = RISK_ONE
                   /\ \A i \in 1..Len(FactorNames) :
                         FactorNames[i] # k => a.factors[FactorNames[i]].v = 0)
               => a.decision = "block"

\* the confidence the classifier reported to the call of the task: 0.8 when
\* ai_analysis has none
ReportedConfidence(t) ==
    IF "confidence" \in DOMAIN rargs[t].ai_analysis
    THEN rargs[t].ai_analysis["confidence"].v
    ELSE 8000

\* the six content-category factors of the assessment of the task are equal
CategoriesEqual(t) ==
    \A j, k \in CategoryFactors :
        risk_assessment[t].assessment.factors[j] = risk_assessment[t].assessment.factors[k]

\* C27 as the specification states it: with the six content categories equal
\* the confidence of the assessment is exactly the confidence the classifier
\* reported, for every reported value in [0, 1].
C27_ConfidenceAsReported ==
    \A t \in RTasks :
        (HasRiskAssessment(t) /\ CategoriesEqual(t))
        => risk_assessment[t].assessment.confidence = ReportedConfidence(t)

\* C27, amended: the confidence of an assessment is never below 0.5.  It is
\* the larger of 0.5 and the reported confidence (0.8 when absent) less a
\* penalty of 0 to 0.2; with the six content categories equal the penalty is
\* 0 and the confidence is the larger of 0.5 and the reported confidence.
C27_ConfidenceFloored ==
    \A t \in RTasks :
        HasRiskAssessment(t)
        => LET confidence == risk_assessment[t].assessment.confidence
               reported == ReportedConfidence(t)
           IN  /\ confidence >= 5000
               /\ confidence <= (IF reported > 5000 THEN reported ELSE 5000)
               /\ confidence >= (IF reported - 2000 > 5000 THEN reported - 2000 ELSE 5000)
               /\ CategoriesEqual(t)
                     => confidence = (IF reported > 5000 THEN reported ELSE 5000)

\* an assessment of six equal categories whose classifier reported 0.3: its
\* confidence is 0.5
C27_Witness ==
    \E t \in RTasks :
        /\ HasRiskAssessment(t)
        /\ CategoriesEqual(t)
        /\ ReportedConfidence(t) = 3000
        /\ risk_assessment[t].assessment.confidence = 5000

(***************************************************************************)
(* The specifications.  AntiRaidSystem and TrustEngine share no state: a   *)
(* specification runs one of them and leaves the other as constructed,     *)
(* with no task calling it.                                                *)
(***************************************************************************)
vars == <<raidVars, trustVars, riskVars>>

\* the TrustEngine with no task calling it
TrustEngineIdle ==
    /\ TRUST_INITIAL = TRUST_INITIAL_DEFAULT * SCORE_SCALE
    /\ trust_db = [p \in TrustPairs |-> << >>]
    /\ tpc = << >>
    /\ top = << >>
    /\ targs = << >>
    /\ trust_update = << >>
    /\ trust_session = << >>
    /\ trust_decay = << >>

\* the AntiRaidSystem with no task calling it
AntiRaidIdle == RaidInit({}, 0)

\* the RiskScoringEngine with no task calling it
RiskEngineIdle == RiskInit({})

\* the operations of AntiRaidSystem called one after the other, while the
\* clock advances
Init == RaidInit(SeqTasks, MaxCalls) /\ TrustEngineIdle /\ RiskEngineIdle

Next ==
    \/ Tick /\ UNCHANGED <<trustVars, riskVars>>
    \/ \E t \in Tasks : record_join_call(t) /\ UNCHANGED <<trustVars, riskVars>>
    \/ \E t \in Tasks : detect_raid_call(t) /\ UNCHANGED <<trustVars, riskVars>>
    \/ \E t \in Tasks : deactivate_raid_protection_call(t) /\ UNCHANGED <<trustVars, riskVars>>
    \/ \E t \in Tasks : is_raid_active_call(t) /\ UNCHANGED <<trustVars, riskVars>>
    \/ \E t \in Tasks : record_join_lock1(t) /\ UNCHANGED <<trustVars, riskVars>>
    \/ \E t \in Tasks : record_join_append(t) /\ UNCHANGED <<trustVars, riskVars>>
    \/ \E t \in Tasks : detect_raid_lock(t) /\ UNCHANGED <<trustVars, riskVars>>
    \/ \E t \in Tasks : detect_raid_body(t) /\ UNCHANGED <<trustVars, riskVars>>
    \/ \E t \in Tasks : record_join_lock2(t) /\ UNCHANGED <<trustVars, riskVars>>
    \/ \E t \in Tasks : record_join_check(t) /\ UNCHANGED <<trustVars, riskVars>>
    \/ \E t \in Tasks : activate_raid_protection_lock(t) /\ UNCHANGED <<trustVars, riskVars>>
    \/ \E t \in Tasks : activate_raid_protection_body(t) /\ UNCHANGED <<trustVars, riskVars>>
    \/ \E t \in Tasks : deactivate_raid_protection_lock(t) /\ UNCHANGED <<trustVars, riskVars>>
    \/ \E t \in Tasks : deactivate_raid_protection_body(t) /\ UNCHANGED <<trustVars, riskVars>>
    \/ \E t \in Tasks : is_raid_active_lock(t) /\ UNCHANGED <<trustVars, riskVars>>
    \/ \E t \in Tasks : is_raid_active_body(t) /\ UNCHANGED <<trustVars, riskVars>>
    \/ \E t \in Tasks : task_return(t) /\ UNCHANGED <<trustVars, riskVars>>

Spec == Init /\ [][Next]_vars

\* the operations of AntiRaidSystem called by concurrent tasks, within one
\* second of the clock
ConcInit == RaidInit(ConcTasks, MaxConcCalls) /\ TrustEngineIdle /\ RiskEngineIdle

ConcNext ==
    \/ \E t \in Tasks : record_join_call(t) /\ UNCHANGED <<trustVars, riskVars>>
    \/ \E t \in Tasks : detect_raid_call(t) /\ UNCHANGED <<trustVars, riskVars>>
    \/ \E t \in Tasks : deactivate_raid_protection_call(t) /\ UNCHANGED <<trustVars, riskVars>>
    \/ \E t \in Tasks : is_raid_active_call(t) /\ UNCHANGED <<trustVars, riskVars>>
    \/ \E t \in Tasks : record_join_lock1(t) /\ UNCHANGED <<trustVars, riskVars>>
    \/ \E t \in Tasks : record_join_append(t) /\ UNCHANGED <<trustVars, riskVars>>
    \/ \E t \in Tasks : detect_raid_lock(t) /\ UNCHANGED <<trustVars, riskVars>>
    \/ \E t \in Tasks : detect_raid_body(t) /\ UNCHANGED <<trustVars, riskVars>>
    \/ \E t \in Tasks : record_join_lock2(t) /\ UNCHANGED <<trustVars, riskVars>>
    \/ \E t \in Tasks : record_join_check(t) /\ UNCHANGED <<trustVars, riskVars>>
    \/ \E t \in Tasks : activate_raid_protection_lock(t) /\ UNCHANGED <<trustVars, riskVars>>
    \/ \E t \in Tasks : activate_raid_protection_body(t) /\ UNCHANGED <<trustVars, riskVars>>
    \/ \E t \in Tasks : deactivate_raid_protection_lock(t) /\ UNCHANGED <<trustVars, riskVars>>
    \/ \E t \in Tasks : deactivate_raid_protection_body(t) /\ UNCHANGED <<trustVars, riskVars>>
    \/ \E t \in Tasks : is_raid_active_lock(t) /\ UNCHANGED <<trustVars, riskVars>>
    \/ \E t \in Tasks : is_raid_active_body(t) /\ UNCHANGED <<trustVars, riskVars>>
    \/ \E t \in Tasks : task_return(t) /\ UNCHANGED <<trustVars, riskVars>>

SpecConc == ConcInit /\ [][ConcNext]_vars

\* every task that can take a step eventually takes one: the event loop runs
\* every ready task, and asyncio.Lock wakes its waiters first come, first served
FairSpec == SpecConc /\ \A t \in ConcTasks : WF_vars(TaskStep(t) /\ UNCHANGED <<trustVars, riskVars>>)

\* detect_raid called once on a join window of any composition
DetectSpecInit == DetectInit(SeqTasks) /\ TrustEngineIdle /\ RiskEngineIdle

DetectNext ==
    \/ \E t \in Tasks : detect_raid_call(t) /\ UNCHANGED <<trustVars, riskVars>>
    \/ \E t \in Tasks : detect_raid_lock(t) /\ UNCHANGED <<trustVars, riskVars>>
    \/ \E t \in Tasks : detect_raid_body(t) /\ UNCHANGED <<trustVars, riskVars>>
    \/ \E t \in Tasks : task_return(t) /\ UNCHANGED <<trustVars, riskVars>>

SpecDetect == DetectSpecInit /\ [][DetectNext]_vars

\* the operations of TrustEngine called by concurrent tasks
TrustSpecInit == TrustInit(TrustTasks) /\ AntiRaidIdle /\ RiskEngineIdle

TrustNext ==
    \/ \E t \in TTasks : calculate_trust_update_call(t) /\ UNCHANGED <<raidVars, riskVars>>
    \/ \E t \in TTasks : update_user_trust_call(t) /\ UNCHANGED <<raidVars, riskVars>>
    \/ \E t \in TTasks : execute_action_call(t) /\ UNCHANGED <<raidVars, riskVars>>
    \/ \E t \in TTasks : update_user_trust_execute(t) /\ UNCHANGED <<raidVars, riskVars>>
    \/ \E t \in TTasks : update_user_trust_commit(t) /\ UNCHANGED <<raidVars, riskVars>>
    \/ \E t \in TTasks : update_user_trust_rollback(t) /\ UNCHANGED <<raidVars, riskVars>>
    \/ \E t \in TTasks : trust_return(t) /\ UNCHANGED <<raidVars, riskVars>>

SpecTrust == TrustSpecInit /\ [][TrustNext]_vars

\* violations processed by concurrent tasks, one _execute_action after the
\* other in each task
ViolationNext ==
    \/ \E t \in TTasks : execute_action_call(t) /\ UNCHANGED <<raidVars, riskVars>>
    \/ \E t \in TTasks : update_user_trust_execute(t) /\ UNCHANGED <<raidVars, riskVars>>
    \/ \E t \in TTasks : update_user_trust_commit(t) /\ UNCHANGED <<raidVars, riskVars>>
    \/ \E t \in TTasks : update_user_trust_rollback(t) /\ UNCHANGED <<raidVars, riskVars>>
    \/ \E t \in TTasks : trust_return(t) /\ UNCHANGED <<raidVars, riskVars>>

SpecViolations == TrustSpecInit /\ [][ViolationNext]_vars

\* the task of a specification of single calls
DecayTasks == {"m1"}

\* calculate_trust_update called by one task with settings.TRUST_INITIAL near
\* the restriction thresholds
RestrictionSpecInit ==
    TrustInitWith(DecayTasks, ThresholdInitialScores) /\ AntiRaidIdle /\ RiskEngineIdle

RestrictionNext ==
    \/ \E t \in TTasks : calculate_trust_update_call(t) /\ UNCHANGED <<raidVars, riskVars>>
    \/ \E t \in TTasks : trust_return(t) /\ UNCHANGED <<raidVars, riskVars>>

SpecRestrictions == RestrictionSpecInit /\ [][RestrictionNext]_vars

\* calculate_trust_decay called by one task on scores and days of every kind
DecaySpecInit == TrustInit(DecayTasks) /\ AntiRaidIdle /\ RiskEngineIdle

DecayNext ==
    \/ \E t \in TTasks : calculate_trust_decay_call(t) /\ UNCHANGED <<raidVars, riskVars>>
    \/ \E t \in TTasks : trust_return(t) /\ UNCHANGED <<raidVars, riskVars>>

SpecDecay == DecaySpecInit /\ [][DecayNext]_vars

\* calculate_risk and _determine_action called on inputs of every kind
RiskSpecInit == RiskInit(RiskTasks) /\ AntiRaidIdle /\ TrustEngineIdle

RiskNext ==
    \/ \E t \in RTasks : calculate_risk_call(t) /\ UNCHANGED <<raidVars, trustVars>>
    \/ \E t \in RTasks : determine_action_call(t) /\ UNCHANGED <<raidVars, trustVars>>
    \/ \E t \in RTasks : risk_return(t) /\ UNCHANGED <<raidVars, trustVars>>

SpecRisk == RiskSpecInit /\ [][RiskNext]_vars

=============================================================================
